---------------------------- MODULE Spec2Model ----------------------------
(***************************************************************************)
(* A model of fix-viewer: the Handle codec (src/src/handle.rs) and the     *)
(* AncestorGraph provenance tree (src/src/graph/ancestors.rs) behind its   *)
(* container (src/src/graphs.rs), and the application frame loop           *)
(* (src/src/app.rs) over the Graph of src/src/graph.rs with the transport  *)
(* of src/src/http.rs.                                                     *)
(*                                                                         *)
(* Text is a sequence of one-character strings.  A u64 is a sequence of 16 *)
(* hexadecimal digit values, most significant first, so that 64-bit words  *)
(* keep their width; a byte is a number in 0..255.                         *)
(***************************************************************************)
EXTENDS Integers, Sequences, FiniteSets, TLC

VARIABLES
    \* ---- codec pipeline (handle.rs) ----
    cpc,        \* position in the codec pipeline
    input,      \* the text handed to Handle::from_hex
    parsed,     \* the Result of Handle::from_hex(input)
    handle,     \* the Handle under test (decoded or constructed)
    hex,        \* Handle::to_hex(handle)
    reparsed,   \* the Result of Handle::from_hex(hex)
    literal,    \* the outcome of Handle::get_literal_content(handle)
    \* ---- graph container (graphs.rs, graph/ancestors.rs) ----
    ancestry,   \* GraphsContainer.ancestry : Option<AncestorGraph>
    steps,      \* the number of container operations performed so far
    panicked,   \* TRUE once an expect()/index panic has ended the process
    last,       \* the last container operation, its arguments and the state before it
    \* ---- application (app.rs, graph.rs, http.rs) ----
    target_input,   \* State.target_input, the text of the "Target" box
    storage_target, \* Storage.target : Handle
    error,          \* State.error
    first_render,   \* State.first_render
    main,           \* State.graph.main : Option<MainAncestor>
    rx,             \* the messages sent on response_tx and not yet received
    spawned,        \* the Handles of the fetch tasks spawned and not yet finished
    fetches,        \* the number of fetches dispatched so far
    frames,         \* the number of update frames run so far
    frame,          \* the last step of the application: its inputs and the state before it
    \* ---- functions applied to drawn arguments ----
    call,       \* the function called and its arguments
    ret,        \* what the call returned, None before it has returned
    \* ---- the response channel (http.rs, app.rs) ----
    running,    \* the fetch tasks spawned by get, in dispatch order: Handle and progress
    channel,    \* the mpsc channel: the messages sent and not yet received
    sent,       \* the messages sent so far, in the order of tx.send
    processed   \* the messages App::update has matched on so far, in order

codecVars == <<cpc, input, parsed, handle, hex, reparsed, literal>>
graphVars == <<ancestry, steps, panicked, last>>
appVars == <<target_input, storage_target, error, first_render, main, rx, spawned,
             fetches, frames, frame>>
funVars == <<call, ret>>
channelVars == <<running, channel, sent, processed>>
vars == <<cpc, input, parsed, handle, hex, reparsed, literal, ancestry, steps, panicked, last,
          target_input, storage_target, error, first_render, main, rx, spawned,
          fetches, frames, frame, call, ret, running, channel, sent, processed>>

None == [tag |-> "None"]

\* the application is not running
AppIdle ==
    /\ target_input = None
    /\ storage_target = None
    /\ error = None
    /\ first_render = None
    /\ main = None
    /\ rx = None
    /\ spawned = None
    /\ fetches = 0
    /\ frames = 0
    /\ frame = None

\* no function is being called
FunIdle ==
    /\ call = None
    /\ ret = None

\* no fetch has been dispatched
ChannelIdle ==
    /\ running = <<>>
    /\ channel = <<>>
    /\ sent = <<>>
    /\ processed = <<>>

-----------------------------------------------------------------------------
(* Constants of handle.rs *)
METADATA_LENGTH == 1
UINT64_LENGTH == 8
HANDLE_LENGTH == 32
LITERAL_CONTENT_LENGTH == HANDLE_LENGTH - METADATA_LENGTH
CANONICAL_HASH_LENGTH == HANDLE_LENGTH - UINT64_LENGTH - METADATA_LENGTH

Accessibilities == {"Strict", "Shallow", "Lazy"}
Objects == {"Blob", "Tree", "Thunk", "Tag"}
Operations == {"Apply", "Eval", "Fill"}

-----------------------------------------------------------------------------
(* Generic helpers *)
Rep(x, n) == [i \in 1..n |-> x]

Ok(v) == [ok |-> TRUE, value |-> v]
Err(e) == [ok |-> FALSE, err |-> e]

\* bit i (0 = least significant) of a byte
Bit(b, i) == (b \div (2 ^ i)) % 2

\* a | b on u8
BitOr(a, b) ==
    LET m(i) == IF Bit(a, i) = 1 \/ Bit(b, i) = 1 THEN 2 ^ i ELSE 0
    IN m(0) + m(1) + m(2) + m(3) + m(4) + m(5) + m(6) + m(7)

-----------------------------------------------------------------------------
(* u64 <-> text and bytes *)
LowerDigits == <<"0", "1", "2", "3", "4", "5", "6", "7", "8", "9",
                 "a", "b", "c", "d", "e", "f">>
UpperDigits == <<"0", "1", "2", "3", "4", "5", "6", "7", "8", "9",
                 "A", "B", "C", "D", "E", "F">>

U64Zero == Rep(0, 2 * UINT64_LENGTH)

\* char::to_digit(16): the digit's value, or -1 for a character that is no digit
to_digit(c) ==
    IF \E i \in 1..16 : LowerDigits[i] = c
    THEN (CHOOSE i \in 1..16 : LowerDigits[i] = c) - 1
    ELSE IF \E i \in 1..16 : UpperDigits[i] = c
    THEN (CHOOSE i \in 1..16 : UpperDigits[i] = c) - 1
    ELSE -1

\* the digit loop of u64::from_str_radix: result = result.checked_mul(16)?.checked_add(d)?
RECURSIVE accumulate(_, _)
accumulate(digits, acc) ==
    IF digits = <<>> THEN Ok(acc)
    ELSE LET d == to_digit(Head(digits))
         IN IF d = -1 THEN Err("InvalidDigit")
            ELSE IF acc[1] # 0 THEN Err("PosOverflow")
            ELSE accumulate(Tail(digits), Tail(acc) \o <<d>>)

\* u64::from_str_radix(src, 16)
from_str_radix(src) ==
    IF src = <<>> THEN Err("Empty")
    ELSE IF Len(src) = 1 /\ src[1] \in {"+", "-"} THEN Err("InvalidDigit")
    ELSE accumulate(IF src[1] = "+" THEN Tail(src) ELSE src, U64Zero)

\* u64::to_le_bytes
to_le_bytes(u) ==
    [k \in 1..UINT64_LENGTH |-> 16 * u[2 * (UINT64_LENGTH - k) + 1] + u[2 * (UINT64_LENGTH - k) + 2]]

\* u64::from_be_bytes
from_be_bytes(bs) ==
    [j \in 1..(2 * UINT64_LENGTH) |->
        LET b == bs[(j + 1) \div 2]
        IN IF j % 2 = 1 THEN b \div 16 ELSE b % 16]

\* u64::from_le_bytes
from_le_bytes(bs) ==
    [j \in 1..(2 * UINT64_LENGTH) |->
        LET b == bs[UINT64_LENGTH - ((j + 1) \div 2) + 1]
        IN IF j % 2 = 1 THEN b \div 16 ELSE b % 16]

\* u8 -> u64 (literal_size.into())
u64_from_u8(b) == Rep(0, 2 * UINT64_LENGTH - 2) \o <<b \div 16, b % 16>>

\* (x & 0xFF) as u8
low_byte(u) == 16 * u[2 * UINT64_LENGTH - 1] + u[2 * UINT64_LENGTH]

format_x_upper(u) ==
    IF u = U64Zero THEN <<"0">>
    ELSE LET first == CHOOSE i \in 1..(2 * UINT64_LENGTH) :
                          u[i] # 0 /\ \A j \in 1..(i - 1) : u[j] = 0
         IN [k \in 1..(2 * UINT64_LENGTH - first + 1) |-> UpperDigits[u[first + k - 1] + 1]]

format_x_padded(u) == [k \in 1..(2 * UINT64_LENGTH) |-> LowerDigits[u[k] + 1]]

\* format!("{:x}", u)
format_x(u) ==
    IF u = U64Zero THEN <<"0">>
    ELSE LET first == CHOOSE i \in 1..(2 * UINT64_LENGTH) :
                          u[i] # 0 /\ \A j \in 1..(i - 1) : u[j] = 0
         IN [k \in 1..(2 * UINT64_LENGTH - first + 1) |-> LowerDigits[u[first + k - 1] + 1]]

\* str::split('-'): the fields between the separators, at least one
RECURSIVE split(_)
split(s) ==
    IF \A i \in 1..Len(s) : s[i] # "-" THEN <<s>>
    ELSE LET p == CHOOSE i \in 1..Len(s) : s[i] = "-" /\ \A j \in 1..(i - 1) : s[j] # "-"
         IN <<SubSeq(s, 1, p - 1)>> \o split(SubSeq(s, p + 1, Len(s)))

\* [String]::join("-")
RECURSIVE join(_)
join(fields) ==
    IF fields = <<>> THEN <<>>
    ELSE IF Len(fields) = 1 THEN fields[1]
    ELSE fields[1] \o <<"-">> \o join(Tail(fields))

\* Iterator::flat_map over a sequence of byte sequences
RECURSIVE flatten(_)
flatten(ss) == IF ss = <<>> THEN <<>> ELSE Head(ss) \o flatten(Tail(ss))

-----------------------------------------------------------------------------
(* Enum conversions of handle.rs *)

\* impl TryFrom<u8> for Accessibility
Accessibility_try_from(value) ==
    CASE value = 0 -> Ok("Strict")
      [] value = 1 -> Ok("Shallow")
      [] value = 2 -> Ok("Lazy")
      [] OTHER -> Err("Invalid number for Accessibility")

\* impl Into<u8> for Accessibility
u8_from_Accessibility(a) ==
    CASE a = "Strict" -> 0
      [] a = "Shallow" -> 1
      [] a = "Lazy" -> 2

\* Object::try_from that knows three codes
Object_try_from_three_codes(value) ==
    CASE value = 0 -> Ok("Tree")
      [] value = 1 -> Ok("Thunk")
      [] value = 2 -> Ok("Blob")
      [] OTHER -> Err("Invalid number for Object")

\* impl TryFrom<u8> for Object
Object_try_from(value) ==
    CASE value = 0 -> Ok("Tree")
      [] value = 1 -> Ok("Thunk")
      [] value = 2 -> Ok("Blob")
      [] value = 3 -> Ok("Tag")
      [] OTHER -> Err("Invalid number for Object")

u8_from_Object_declaration_order(val) ==
    CASE val = "Blob" -> 0
      [] val = "Tree" -> 1
      [] val = "Thunk" -> 2
      [] val = "Tag" -> 3

\* impl From<Object> for u8
u8_from_Object(val) ==
    CASE val = "Tree" -> 0
      [] val = "Thunk" -> 1
      [] val = "Blob" -> 2
      [] val = "Tag" -> 3

-----------------------------------------------------------------------------
(* Handle values.  content is Literal(bytes) or Other{object_type, data};    *)
(* data is Canonical(hash) or Local(id).                                     *)
Literal(bytes) == [tag |-> "Literal", bytes |-> bytes]
Other(object_type, data) == [tag |-> "Other", object_type |-> object_type, data |-> data]
Canonical(hash) == [tag |-> "Canonical", hash |-> hash]
Local(id) == [tag |-> "Local", id |-> id]
Handle(size, accessibility, content) ==
    [size |-> size, accessibility |-> accessibility, content |-> content]

decode_literal_flag_first(handle_content) ==
    LET metadata == handle_content[HANDLE_LENGTH]
        is_literal == Bit(metadata, 5) # 0
        accessibility == Accessibility_try_from(metadata \div 64)
    IN IF is_literal
       THEN Ok(Handle(u64_from_u8(metadata % 32),
                      IF accessibility.ok THEN accessibility.value ELSE "Lazy",
                      Literal(SubSeq(handle_content, 1, LITERAL_CONTENT_LENGTH))))
       ELSE IF ~accessibility.ok THEN Err("getting accessibility bits")
       ELSE Ok(Handle(from_le_bytes(SubSeq(handle_content, UINT64_LENGTH * 2 + 1, UINT64_LENGTH * 3)),
                      accessibility.value,
                      Other(Object_try_from(metadata % 4).value,
                            IF Bit(metadata, 2) # 0
                            THEN Canonical(SubSeq(handle_content, 1, UINT64_LENGTH * 2)
                                    \o SubSeq(handle_content, UINT64_LENGTH * 3 + 1, HANDLE_LENGTH - 1))
                            ELSE Local(from_le_bytes(SubSeq(handle_content, 1, UINT64_LENGTH))))))

\* Handle::from_hex, from the metadata byte on: the 32-byte buffer to a Handle
decode(handle_content) ==
    LET metadata == handle_content[HANDLE_LENGTH]
        is_literal == Bit(metadata, 5) # 0
        accessibility == Accessibility_try_from(metadata \div 64)
    IN IF ~accessibility.ok THEN Err("getting accessibility bits")
       ELSE IF is_literal
       THEN Ok(Handle(u64_from_u8(metadata % 32), accessibility.value,
                      Literal(SubSeq(handle_content, 1, LITERAL_CONTENT_LENGTH))))
       ELSE
       LET is_canonical == Bit(metadata, 2) # 0
           object_type == Object_try_from(metadata % 4)
           size == from_le_bytes(SubSeq(handle_content, UINT64_LENGTH * 2 + 1, UINT64_LENGTH * 3))
       IN IF ~object_type.ok THEN Err("getting object bits")
          ELSE IF is_canonical
          THEN Ok(Handle(size, accessibility.value, Other(object_type.value, Canonical(
                   SubSeq(handle_content, 1, UINT64_LENGTH * 2)
                   \o SubSeq(handle_content, UINT64_LENGTH * 3 + 1, HANDLE_LENGTH - 1)))))
          ELSE Ok(Handle(size, accessibility.value, Other(object_type.value,
                   Local(from_le_bytes(SubSeq(handle_content, 1, UINT64_LENGTH))))))

\* input.split('-').map(|i| u64::from_str_radix(i, 16))
parse_fields(text) ==
    LET fields == split(text)
    IN [i \in 1..Len(fields) |-> from_str_radix(fields[i])]

from_hex_at_least_four(text) ==
    LET results == parse_fields(text)
    IN IF \E i \in 1..Len(results) : ~results[i].ok
       THEN Err("Failed to parse handle from hex")
       ELSE IF Len(results) < 4
       THEN Err("Expected handle with exactly 4 parts when parsing from hex")
       ELSE decode(flatten([i \in 1..4 |-> to_le_bytes(results[i].value)]))

\* Handle::from_hex
from_hex(text) ==
    LET results == parse_fields(text)
    IN IF \E i \in 1..Len(results) : ~results[i].ok
       THEN Err("Failed to parse handle from hex")
       ELSE IF Len(results) # 4
       THEN Err("Expected handle with exactly 4 parts when parsing from hex")
       ELSE decode(flatten([i \in 1..4 |-> to_le_bytes(results[i].value)]))

\* out[at..at+Len(src)) = src (copy_from_slice), at counted from 0
copy_from_slice(out, at, src) ==
    [i \in 1..Len(out) |-> IF i > at /\ i <= at + Len(src) THEN src[i - at] ELSE out[i]]

\* out[HANDLE_LENGTH - 1] = bits
set_metadata(out, bits) ==
    [i \in 1..Len(out) |-> IF i = HANDLE_LENGTH THEN bits ELSE out[i]]

\* out[HANDLE_LENGTH - 1] |= bits
or_metadata(out, bits) ==
    [i \in 1..Len(out) |-> IF i = HANDLE_LENGTH THEN BitOr(out[i], bits) ELSE out[i]]

\* Handle::to_buffer
to_buffer(h) ==
    LET out0 == or_metadata(Rep(0, HANDLE_LENGTH), u8_from_Accessibility(h.accessibility) * 64)
    IN IF h.content.tag = "Literal"
       THEN or_metadata(or_metadata(copy_from_slice(out0, 0, h.content.bytes), 32),
                        low_byte(h.size))
       ELSE
       LET out1 == or_metadata(out0, u8_from_Object(h.content.object_type))
           out2 == copy_from_slice(out1, UINT64_LENGTH * 2, to_le_bytes(h.size))
           data == h.content.data
       IN IF data.tag = "Canonical"
          THEN copy_from_slice(
                   copy_from_slice(or_metadata(out2, 4), 0,
                                   SubSeq(data.hash, 1, UINT64_LENGTH * 2)),
                   UINT64_LENGTH * 3,
                   SubSeq(data.hash, UINT64_LENGTH * 2 + 1, CANONICAL_HASH_LENGTH))
          ELSE copy_from_slice(out2, 0, to_le_bytes(data.id))

\* Handle::to_hex
to_hex(h) ==
    LET buffer == to_buffer(h)
        chunk(i) == SubSeq(buffer, UINT64_LENGTH * (i - 1) + 1, UINT64_LENGTH * i)
    IN join([i \in 1..(HANDLE_LENGTH \div UINT64_LENGTH) |-> format_x(from_le_bytes(chunk(i)))])

\* the value of a u64 when it is at most LITERAL_CONTENT_LENGTH, else -1
\* (self.size as usize, compared with the length of the slice it indexes)
as_index(u) ==
    IF (\A j \in 1..(2 * UINT64_LENGTH - 2) : u[j] = 0) /\ low_byte(u) <= LITERAL_CONTENT_LENGTH
    THEN low_byte(u) ELSE -1

\* Handle::get_literal_content; &content[..n] panics when n exceeds the slice
get_literal_content(h) ==
    IF h.content.tag = "Literal"
    THEN IF as_index(h.size) = -1 THEN [tag |-> "Panic"]
         ELSE [tag |-> "Some", bytes |-> SubSeq(h.content.bytes, 1, as_index(h.size))]
    ELSE None

-----------------------------------------------------------------------------
(* Inputs of the codec pipeline *)

\* the largest number of '-'-separated fields in a malformed input
MaxFields == 5

Zeros(n) == Rep("0", n)

\* a text without its leading "0" characters, keeping at least one character
RECURSIVE Strip(_)
Strip(s) == IF Len(s) > 1 /\ s[1] = "0" THEN Strip(Tail(s)) ELSE s

\* first field (buffer bytes 0..7): 0, d9 and 10 of tests::thunk and tests::blob, and a full word of tests::tag
Word0Pool == { <<"0">>, <<"d", "9">>, <<"1", "0">>,
               <<"8", "6", "2", "f", "c", "b", "a", "5", "e", "c", "a", "a", "d", "e", "2", "c">> }
\* second field (buffer bytes 8..15)
Word1Pool == { <<"0">>,
               <<"4", "b", "2", "4", "1", "5", "9", "a", "c", "7", "c", "2", "8", "a", "2", "9">> }
\* third field (buffer bytes 16..23, the size window)
Word2Pool == { <<"0">>, <<"4">>, <<"1", "0", "3">> }
\* the low seven bytes of the fourth field (buffer bytes 24..30), as 14 digits
Low7Pool == { Zeros(14),
              <<"1", "5", "e", "b", "1", "e", "4", "1", "f", "3", "7", "d", "4", "2">> }
\* every value of the metadata byte (buffer byte 31)
MetaBytes == 0..255

MetaField(m, low7) == Strip(<<LowerDigits[(m \div 16) + 1], LowerDigits[(m % 16) + 1]>> \o low7)

\* four canonical fields: lowercase, no leading zeros
CanonicalTexts ==
    { join(<<w0, w1, w2, MetaField(m, l)>>) :
        w0 \in Word0Pool, w1 \in Word1Pool, w2 \in Word2Pool, m \in MetaBytes, l \in Low7Pool }

\* fields that are unusual or no hexadecimal u64 at all
OddFields == { <<>>, <<"g">>, <<"+">>, <<"+", "1">>, <<"D", "9">>, <<"0", "0", "d", "9">>,
               <<" ", "1">>, <<"0", "x", "1">>, <<"1">> \o Zeros(16), Zeros(17) \o <<"1">>,
               <<"f">> \o Rep("f", 15), <<"f">> \o Rep("f", 16) }

BaseFields(n) == { Rep(<<"0">>, n), [i \in 1..n |-> IF i = n THEN <<"2", "4">> \o Zeros(14) ELSE <<"d", "9">>] }

\* one to MaxFields fields, one of them possibly odd
VariedTexts ==
    UNION { { join([k \in 1..n |-> IF k = i THEN f ELSE base[k]]) :
                base \in BaseFields(n), i \in 1..n,
                f \in OddFields \cup { <<"0">>, <<"d", "9">> } } : n \in 1..MaxFields }

Texts == CanonicalTexts \cup VariedTexts

U64(hi, lo) == Rep(0, 2 * UINT64_LENGTH - 4) \o <<hi \div 16, hi % 16, lo \div 16, lo % 16>>

\* Handle values built field by field, as the unit tests build them; size is any u64
SizePool == { U64(0, 0), U64(0, 4), U64(0, 31), U64(0, 32), U64(0, 68), U64(1, 4) }
LiteralPool == { Rep(0, LITERAL_CONTENT_LENGTH), <<16>> \o Rep(0, LITERAL_CONTENT_LENGTH - 1),
                 [i \in 1..LITERAL_CONTENT_LENGTH |-> i] }
HashPool == { Rep(0, CANONICAL_HASH_LENGTH), [i \in 1..CANONICAL_HASH_LENGTH |-> 255 - i] }
BuiltHandles ==
    { Handle(sz, a, Literal(bs)) : sz \in SizePool, a \in Accessibilities, bs \in LiteralPool }
    \cup { Handle(sz, a, Other(o, Canonical(hs))) :
             sz \in SizePool, a \in Accessibilities, o \in Objects, hs \in HashPool }
    \cup { Handle(sz, a, Other(o, Local(id))) :
             sz \in SizePool, a \in Accessibilities, o \in Objects, id \in { U64(0, 0), U64(0, 217) } }

-----------------------------------------------------------------------------
(* The codec pipeline: from_hex, then to_hex, then from_hex again; and      *)
(* get_literal_content of a decoded or built Handle.                        *)

GraphIdle ==
    /\ ancestry = None
    /\ steps = 0
    /\ panicked = FALSE
    /\ last = [op |-> "init"]

CodecInit ==
    /\ \/ /\ cpc = "text"
          /\ input \in Texts
          /\ handle = None
       \/ /\ cpc = "built"
          /\ input = None
          /\ handle \in BuiltHandles
    /\ parsed = None
    /\ hex = None
    /\ reparsed = None
    /\ literal = None
    /\ GraphIdle
    /\ AppIdle
    /\ FunIdle
    /\ ChannelIdle

FromHex ==
    /\ cpc = "text"
    /\ parsed' = from_hex(input)
    /\ handle' = IF parsed'.ok THEN parsed'.value ELSE None
    /\ cpc' = "parsed"
    /\ UNCHANGED <<input, hex, reparsed, literal, graphVars, appVars, funVars, channelVars>>

ToHex ==
    /\ cpc \in {"parsed", "built"}
    /\ handle # None
    /\ hex' = to_hex(handle)
    /\ cpc' = "encoded"
    /\ UNCHANGED <<input, parsed, handle, reparsed, literal, graphVars, appVars, funVars, channelVars>>

FromHexAgain ==
    /\ cpc = "encoded"
    /\ reparsed' = from_hex(hex)
    /\ cpc' = "reparsed"
    /\ UNCHANGED <<input, parsed, handle, hex, literal, graphVars, appVars, funVars, channelVars>>

GetLiteralContent ==
    /\ cpc \in {"parsed", "built"}
    /\ handle # None
    /\ literal' = get_literal_content(handle)
    /\ cpc' = "content"
    /\ UNCHANGED <<input, parsed, handle, hex, reparsed, graphVars, appVars, funVars, channelVars>>

CodecNext == FromHex \/ ToHex \/ FromHexAgain \/ GetLiteralContent

SpecCodec == CodecInit /\ [][CodecNext]_vars

-----------------------------------------------------------------------------
(* Properties of the codec, checked under SpecCodec *)

LowerHexChars == { LowerDigits[i] : i \in 1..16 }
HexChars == LowerHexChars \cup { UpperDigits[i] : i \in 1..16 }

\* the number of '-'-separated fields of a text
NumFields(s) == Cardinality({ i \in 1..Len(s) : s[i] = "-" }) + 1

\* a lowercase hexadecimal 64-bit field with no leading zeros
CanonicalField(f) ==
    /\ Len(f) \in 1..(2 * UINT64_LENGTH)
    /\ \A i \in 1..Len(f) : f[i] \in LowerHexChars
    /\ Len(f) > 1 => f[1] # "0"

\* exactly four canonical fields
WellFormed(s) ==
    /\ NumFields(s) = 4
    /\ \A i \in 1..4 : CanonicalField(split(s)[i])

\* a hexadecimal unsigned 64-bit integer as u64::from_str_radix reads one: an optional
\* '+', then at least one digit of either case, the value below 2^64
ValidHexU64(f) ==
    LET d == IF f # <<>> /\ f[1] = "+" THEN Tail(f) ELSE f
    IN /\ d # <<>>
       /\ \A i \in 1..Len(d) : d[i] \in HexChars
       /\ \A i \in 1..(Len(d) - 2 * UINT64_LENGTH) : d[i] = "0"

AllFieldsValid(s) == \A i \in 1..NumFields(s) : ValidHexU64(split(s)[i])

\* the metadata byte of a text of four valid fields: the two leading digits of the
\* fourth field written with 16 digits
MetadataOf(s) ==
    LET f == split(s)[4]
        d == IF f[1] = "+" THEN Tail(f) ELSE f
        p == Zeros(2 * UINT64_LENGTH) \o d
        q == SubSeq(p, Len(p) - 2 * UINT64_LENGTH + 1, Len(p))
    IN 16 * to_digit(q[1]) + to_digit(q[2])

\* the 32 bytes a text of four valid fields denotes
BytesOf(s) == flatten([i \in 1..4 |-> to_le_bytes(from_str_radix(split(s)[i]).value)])

\* C1: for every Handle h that from_hex returns, from_hex(to_hex(h)) succeeds and
\* equals h in every field.
C1_DecodeEncodeRoundTrip ==
    (cpc = "reparsed" /\ parsed # None) => (reparsed.ok /\ reparsed.value = handle)

C1_Witness ==
    /\ cpc = "reparsed"
    /\ parsed # None
    /\ reparsed.ok
    /\ handle.accessibility = "Lazy"
    /\ handle.content.tag = "Other"
    /\ handle.content.object_type = "Blob"
    /\ handle.content.data.tag = "Canonical"
    /\ handle.content.data.hash[CANONICAL_HASH_LENGTH] # 0

\* C2 as stated: for every well-formed text s that from_hex accepts,
\* to_hex(from_hex(s)) = s.
C2_EncodeDecodeRoundTrip_AsStated ==
    (cpc = "encoded" /\ parsed # None /\ WellFormed(input)) => hex = input

\* the bits of the buffer that from_hex never reads are zero: metadata bits 3 and 4
\* when the literal flag is clear and, for a Local handle (bit 2 clear as well),
\* bytes 8..15 and 24..30
UnreadBitsZero(s) ==
    LET bytes == BytesOf(s)
        metadata == bytes[HANDLE_LENGTH]
    IN \/ Bit(metadata, 5) = 1
       \/ /\ Bit(metadata, 3) = 0
          /\ Bit(metadata, 4) = 0
          /\ Bit(metadata, 2) = 0 =>
                \A k \in (UINT64_LENGTH + 1)..(2 * UINT64_LENGTH)
                         \cup (3 * UINT64_LENGTH + 1)..(HANDLE_LENGTH - 1) : bytes[k] = 0

\* C2 (amended): for every well-formed text s that from_hex accepts and whose unread
\* bits are zero, to_hex(from_hex(s)) = s.
C2_EncodeDecodeRoundTrip ==
    (cpc = "encoded" /\ parsed # None /\ WellFormed(input) /\ UnreadBitsZero(input))
        => hex = input

C2_Witness ==
    /\ cpc = "encoded"
    /\ parsed # None
    /\ WellFormed(input)
    /\ UnreadBitsZero(input)
    /\ handle.content.tag = "Other"
    /\ handle.content.data.tag = "Local"
    /\ handle.content.data.id # U64Zero
    /\ handle.size # U64Zero
    /\ hex = input

\* C3: from_hex returns an error, and no Handle, for every input whose number of
\* fields is not 4 and for every input with a field that is no hexadecimal u64.
C3_RejectsMalformed ==
    (cpc = "parsed" /\ (NumFields(input) # 4 \/ ~AllFieldsValid(input)))
        => (~parsed.ok /\ handle = None)

C3_Witness ==
    /\ cpc = "parsed"
    /\ NumFields(input) = 5
    /\ AllFieldsValid(input)
    /\ ~parsed.ok

\* C4: a four-field input whose metadata byte has top two bits 3 is an error, with
\* the literal flag set or clear; top two bits 0, 1, 2 decode to Strict, Shallow, Lazy.
C4_Accessibility ==
    (cpc = "parsed" /\ NumFields(input) = 4 /\ AllFieldsValid(input)) =>
        LET top == MetadataOf(input) \div 64
        IN /\ top = 3 => ~parsed.ok
           /\ top = 0 => (parsed.ok /\ handle.accessibility = "Strict")
           /\ top = 1 => (parsed.ok /\ handle.accessibility = "Shallow")
           /\ top = 2 => (parsed.ok /\ handle.accessibility = "Lazy")

C4_Witness ==
    /\ cpc = "parsed"
    /\ NumFields(input) = 4
    /\ AllFieldsValid(input)
    /\ MetadataOf(input) \div 64 = 3
    /\ Bit(MetadataOf(input), 5) = 1
    /\ ~parsed.ok

\* C5: get_literal_content returns Some(the first `size` bytes of the payload) exactly
\* for a Literal handle, None for a Canonical or Local one, and fails for no Handle.
C5_GetLiteralContent ==
    cpc = "content" =>
        /\ literal.tag # "Panic"
        /\ handle.content.tag = "Literal" <=> literal.tag = "Some"
        /\ handle.content.tag # "Literal" <=> literal = None
        /\ literal.tag = "Some" =>
              /\ u64_from_u8(Len(literal.bytes)) = handle.size
              /\ \A i \in 1..Len(literal.bytes) : literal.bytes[i] = handle.content.bytes[i]

\* C6: to_hex writes exactly four fields joined by '-', each the lowercase rendering
\* without leading zeros ("0" for zero) of one little-endian 64-bit word of the packed
\* handle, in buffer order.
C6_ToHexFormat ==
    cpc = "encoded" =>
        /\ NumFields(hex) = 4
        /\ Len(split(hex)) = 4
        /\ \A i \in 1..4 :
              /\ CanonicalField(split(hex)[i])
              /\ from_str_radix(split(hex)[i]) =
                    Ok(from_le_bytes(SubSeq(to_buffer(handle),
                                            UINT64_LENGTH * (i - 1) + 1, UINT64_LENGTH * i)))

C6_Witness ==
    /\ cpc = "encoded"
    /\ split(hex)[1] = <<"d", "9">>
    /\ split(hex)[2] = <<"0">>
    /\ Len(split(hex)[4]) = 2 * UINT64_LENGTH

-----------------------------------------------------------------------------
(* AncestorGraph (graph/ancestors.rs).  An Ancestor is a record               *)
(* [content, parents, children]: content is the Element's Handle, parents the *)
(* owned Ancestors above it, children its back-edges <<OrderingIndex,         *)
(* Operation>>.  A Lineage is a sequence of positions counted from 0.  The    *)
(* graph is [inner, lineages, ordering]; lineages maps a Handle to            *)
(* <<OrderingIndex, Lineage>>.                                                *)

\* the Handles the graph is exercised with, the longest list of incoming Tasks, and
\* the number of container operations in a run
NumHandles == 4
MaxIncoming == 2
MaxSteps == 3

GraphHandles == 1..NumHandles
Task(h, op) == [handle |-> h, operation |-> op]
Tasks == { Task(h, op) : h \in GraphHandles, op \in Operations }
TaskLists == UNION { [1..n -> Tasks] : n \in 0..MaxIncoming }

\* Ancestor::new
Ancestor_new(content, children) ==
    [content |-> content, parents |-> <<>>, children |-> children]

AncestorGraph_new_index_one(element) ==
    [inner |-> <<Ancestor_new(element, <<>>)>>,
     lineages |-> [h \in {element} |-> <<1, <<0>>>>],
     ordering |-> <<element>>]

\* AncestorGraph::new
AncestorGraph_new(element) ==
    [inner |-> <<Ancestor_new(element, <<>>)>>,
     lineages |-> [h \in {element} |-> <<0, <<0>>>>],
     ordering |-> <<element>>]

\* AncestorGraph::get_from_lineage
RECURSIVE get_from_lineage(_, _)
get_from_lineage(root_slice, lineage) ==
    IF Len(lineage) = 1 THEN root_slice[lineage[1] + 1]
    ELSE get_from_lineage(root_slice[lineage[1] + 1].parents, Tail(lineage))

\* AncestorGraph::get_mut_from_lineage, followed by a write through the reference:
\* the slice with the Ancestor at the lineage replaced
RECURSIVE set_at_lineage(_, _, _)
set_at_lineage(root_slice, lineage, ancestor) ==
    [i \in 1..Len(root_slice) |->
        IF i # lineage[1] + 1 THEN root_slice[i]
        ELSE IF Len(lineage) = 1 THEN ancestor
        ELSE [content |-> root_slice[i].content,
              parents |-> set_at_lineage(root_slice[i].parents, Tail(lineage), ancestor),
              children |-> root_slice[i].children]]

\* push_elements of MainAncestor::iter (graph.rs): prefix, depth-first list of the
\* contents of a slice of Ancestors
RECURSIVE push_elements(_)
push_elements(current_list) ==
    IF current_list = <<>> THEN <<>>
    ELSE <<Head(current_list).content>> \o push_elements(Head(current_list).parents)
            \o push_elements(Tail(current_list))

iter_depth_first(g) == push_elements(g.inner)

\* AncestorGraph::iter
iter(g) ==
    [i \in 1..Len(g.ordering) |-> get_from_lineage(g.inner, g.lineages[g.ordering[i]][2]).content]

\* AncestorGraph::len
len(g) == Len(g.ordering)

add_child_unchecked(a, incoming_child, operation) ==
    [content |-> a.content, parents |-> a.parents,
     children |-> Append(a.children, <<incoming_child, operation>>)]

add_child_replace(a, incoming_child, operation) ==
    [content |-> a.content, parents |-> a.parents,
     children |-> <<<<incoming_child, operation>>>>]

\* Ancestor::add_child
add_child(a, incoming_child, operation) ==
    IF \A i \in 1..Len(a.children) :
          (a.children[i][1] # incoming_child) /\ (a.children[i][2] # operation)
    THEN [content |-> a.content, parents |-> a.parents,
          children |-> Append(a.children, <<incoming_child, operation>>)]
    ELSE a

\* HashMap::insert
insert(map, key, value) ==
    [k \in DOMAIN map \cup {key} |-> IF k = key THEN value ELSE map[k]]

merge_parent_always_new(g, child_index, child_lineage, parent) ==
    LET target == get_from_lineage(g.inner, child_lineage)
    IN [inner |-> set_at_lineage(g.inner, child_lineage,
                     [content |-> target.content,
                      parents |-> Append(target.parents,
                                         Ancestor_new(parent.handle,
                                                      <<<<child_index, parent.operation>>>>)),
                      children |-> target.children]),
        lineages |-> insert(g.lineages, parent.handle,
                            <<Len(g.ordering), Append(child_lineage, Len(target.parents))>>),
        ordering |-> Append(g.ordering, parent.handle)]

merge_parent_push_front(g, child_index, child_lineage, parent) ==
    IF parent.handle \in DOMAIN g.lineages
    THEN LET lineage == g.lineages[parent.handle][2]
             ancestor == get_from_lineage(g.inner, lineage)
         IN [inner |-> set_at_lineage(g.inner, lineage,
                                      add_child(ancestor, child_index, parent.operation)),
             lineages |-> g.lineages,
             ordering |-> g.ordering]
    ELSE LET target == get_from_lineage(g.inner, child_lineage)
         IN [inner |-> set_at_lineage(g.inner, child_lineage,
                          [content |-> target.content,
                           parents |-> <<Ancestor_new(parent.handle,
                                                      <<<<child_index, parent.operation>>>>)>>
                                          \o target.parents,
                           children |-> target.children]),
             lineages |-> insert(g.lineages, parent.handle,
                                 <<Len(g.ordering), Append(child_lineage, Len(target.parents))>>),
             ordering |-> Append(g.ordering, parent.handle)]

\* the body of the loop with the new Lineage left at that of the child
merge_parent_child_lineage(g, child_index, child_lineage, parent) ==
    IF parent.handle \in DOMAIN g.lineages
    THEN LET lineage == g.lineages[parent.handle][2]
             ancestor == get_from_lineage(g.inner, lineage)
         IN [inner |-> set_at_lineage(g.inner, lineage,
                                      add_child(ancestor, child_index, parent.operation)),
             lineages |-> g.lineages,
             ordering |-> g.ordering]
    ELSE LET target == get_from_lineage(g.inner, child_lineage)
         IN [inner |-> set_at_lineage(g.inner, child_lineage,
                          [content |-> target.content,
                           parents |-> Append(target.parents,
                                              Ancestor_new(parent.handle,
                                                           <<<<child_index, parent.operation>>>>)),
                           children |-> target.children]),
             lineages |-> insert(g.lineages, parent.handle, <<Len(g.ordering), child_lineage>>),
             ordering |-> Append(g.ordering, parent.handle)]

\* AncestorGraph::merge_new_parents, the body of its loop for one incoming Task
merge_parent(g, child_index, child_lineage, parent) ==
    IF parent.handle \in DOMAIN g.lineages
    THEN \* self.find(&parent.handle) is Some(ancestor)
         LET lineage == g.lineages[parent.handle][2]
             ancestor == get_from_lineage(g.inner, lineage)
         IN [inner |-> set_at_lineage(g.inner, lineage,
                                      add_child(ancestor, child_index, parent.operation)),
             lineages |-> g.lineages,
             ordering |-> g.ordering]
    ELSE LET target == get_from_lineage(g.inner, child_lineage)
             lineage_index == Len(target.parents)
             ancestor_index == Len(g.ordering)
         IN [inner |-> set_at_lineage(g.inner, child_lineage,
                          [content |-> target.content,
                           parents |-> Append(target.parents,
                                              Ancestor_new(parent.handle,
                                                           <<<<child_index, parent.operation>>>>)),
                           children |-> target.children]),
             lineages |-> insert(g.lineages, parent.handle,
                                 <<ancestor_index, Append(child_lineage, lineage_index)>>),
             ordering |-> Append(g.ordering, parent.handle)]

\* AncestorGraph::merge_new_parents, its loop over the incoming Tasks
RECURSIVE merge_loop(_, _, _, _)
merge_loop(g, child_index, child_lineage, incoming_parents) ==
    IF incoming_parents = <<>> THEN g
    ELSE merge_loop(merge_parent(g, child_index, child_lineage, Head(incoming_parents)),
                    child_index, child_lineage, Tail(incoming_parents))

\* AncestorGraph::merge_new_parents for a target the graph holds
merge_new_parents(g, h, incoming_parents) ==
    merge_loop(g, g.lineages[h][1], g.lineages[h][2], incoming_parents)

-----------------------------------------------------------------------------
(* AncestorGraph::get_draw_parameters.  An f32 is modelled as an exact       *)
(* fraction <<numerator, denominator>> in lowest terms, denominator > 0.     *)

RECURSIVE Gcd(_, _)
Gcd(a, b) == IF b = 0 THEN a ELSE Gcd(b, a % b)

Abs(n) == IF n < 0 THEN -n ELSE n

\* the fraction n/d in lowest terms
Frac(n, d) ==
    LET k == Gcd(Abs(n), Abs(d))
        sign == IF d < 0 THEN -1 ELSE 1
    IN <<sign * (n \div k), sign * (d \div k)>>

F32(n) == <<n, 1>>
FracAdd(a, b) == Frac(a[1] * b[2] + b[1] * a[2], a[2] * b[2])
FracNeg(a) == <<-a[1], a[2]>>
FracSub(a, b) == FracAdd(a, FracNeg(b))
FracMul(a, b) == Frac(a[1] * b[1], a[2] * b[2])
FracDiv(a, b) == Frac(a[1] * b[2], a[2] * b[1])

\* const Y_SCALE: f32 = 0.5
Y_SCALE == <<1, 2>>

\* the offset of a slot from the centre of its generation, in steps, measured at the
\* left edge of the slot
x_step_offset_to_left_edge(lineage_index, generation_len) ==
    FracSub(F32(lineage_index), FracMul(F32(generation_len), <<1, 2>>))

\* the offset of a slot without the half step to its centre
x_step_offset_without_half(lineage_index, generation_len) ==
    x_step_offset_to_left_edge(lineage_index, generation_len)

\* the same, measured at the centre of the slot
x_step_offset_to_center(lineage_index, generation_len) ==
    FracAdd(x_step_offset_to_left_edge(lineage_index, generation_len), <<1, 2>>)

\* the for loop with the scale of a generation taken from its own length only
RECURSIVE draw_loop_own_length(_, _, _, _)
draw_loop_own_length(current_generation, lineage, pos, scale) ==
    IF lineage = <<>> THEN [pos |-> pos, scale |-> scale]
    ELSE LET lineage_index == Head(lineage)
             generation_scale == FracDiv(F32(1), F32(Len(current_generation)))
             step_size == generation_scale
         IN draw_loop_own_length(
                current_generation[lineage_index + 1].parents, Tail(lineage),
                <<FracAdd(pos[1],
                          FracMul(step_size,
                                  x_step_offset_to_center(lineage_index,
                                                          Len(current_generation)))),
                  FracAdd(pos[2], FracMul(generation_scale, Y_SCALE))>>,
                generation_scale)

\* the for loop of AncestorGraph::get_draw_parameters over the rest of the lineage
RECURSIVE draw_loop(_, _, _, _)
draw_loop(current_generation, lineage, pos, scale) ==
    IF lineage = <<>> THEN [pos |-> pos, scale |-> scale]
    ELSE LET lineage_index == Head(lineage)
             generation_scale == FracDiv(scale, F32(Len(current_generation)))
             step_size == generation_scale
         IN draw_loop(current_generation[lineage_index + 1].parents, Tail(lineage),
                      <<FracAdd(pos[1],
                                FracMul(step_size,
                                        x_step_offset_to_center(lineage_index,
                                                                Len(current_generation)))),
                        FracAdd(pos[2], FracMul(generation_scale, Y_SCALE))>>,
                      generation_scale)

\* AncestorGraph::get_draw_parameters: the position <<x, y>> and the scale of the node
\* with an OrderingIndex
get_draw_parameters(g, index) ==
    draw_loop(g.inner, g.lineages[g.ordering[index + 1]][2],
              <<F32(0), FracNeg(FracMul(F32(1), Y_SCALE))>>, F32(1))

-----------------------------------------------------------------------------
(* GraphsContainer (graphs.rs) *)

CodecIdle ==
    /\ cpc = "idle"
    /\ input = None
    /\ parsed = None
    /\ handle = None
    /\ hex = None
    /\ reparsed = None
    /\ literal = None

\* GraphsContainer::new
Init ==
    /\ ancestry = None
    /\ steps = 0
    /\ panicked = FALSE
    /\ last = [op |-> "init"]
    /\ CodecIdle
    /\ AppIdle
    /\ FunIdle
    /\ ChannelIdle

SetMainHandle_keeps_graph(h) ==
    /\ ~panicked
    /\ steps < MaxSteps
    /\ steps' = steps + 1
    /\ ancestry' = IF ancestry = None THEN AncestorGraph_new(h) ELSE ancestry
    /\ last' = [op |-> "set_main_handle", handle |-> h, pre |-> ancestry]
    /\ UNCHANGED <<panicked, codecVars, appVars, funVars, channelVars>>

\* GraphsContainer::set_main_handle
SetMainHandle(h) ==
    /\ ~panicked
    /\ steps < MaxSteps
    /\ steps' = steps + 1
    /\ ancestry' = AncestorGraph_new(h)
    /\ last' = [op |-> "set_main_handle", handle |-> h, pre |-> ancestry]
    /\ UNCHANGED <<panicked, codecVars, appVars, funVars, channelVars>>

SetParents_roots_when_empty(h, parents) ==
    /\ ~panicked
    /\ steps < MaxSteps
    /\ steps' = steps + 1
    /\ IF ancestry = None
       THEN /\ ancestry' = merge_new_parents(AncestorGraph_new(h), h, parents)
            /\ UNCHANGED panicked
       ELSE IF h \in DOMAIN ancestry.lineages
       THEN /\ ancestry' = merge_new_parents(ancestry, h, parents)
            /\ UNCHANGED panicked
       ELSE /\ panicked' = TRUE
            /\ UNCHANGED ancestry
    /\ last' = [op |-> "set_parents", handle |-> h, parents |-> parents, pre |-> ancestry]
    /\ UNCHANGED <<codecVars, appVars, funVars, channelVars>>

\* GraphsContainer::set_parents
SetParents(h, parents) ==
    /\ ~panicked
    /\ steps < MaxSteps
    /\ steps' = steps + 1
    /\ IF ancestry = None
       THEN UNCHANGED <<ancestry, panicked>>
       ELSE IF h \in DOMAIN ancestry.lineages
       THEN /\ ancestry' = merge_new_parents(ancestry, h, parents)
            /\ UNCHANGED panicked
       ELSE \* .expect("the target child for merging new parents must exist")
            /\ panicked' = TRUE
            /\ UNCHANGED ancestry
    /\ last' = [op |-> "set_parents", handle |-> h, parents |-> parents, pre |-> ancestry]
    /\ UNCHANGED <<codecVars, appVars, funVars, channelVars>>

Next ==
    \/ \E h \in GraphHandles : SetMainHandle(h)
    \/ \E h \in GraphHandles, parents \in TaskLists : SetParents(h, parents)

Spec == Init /\ [][Next]_vars

-----------------------------------------------------------------------------
(* Properties of the graph, checked under Spec *)

\* every Ancestor owned by a slice of Ancestors, at any depth
RECURSIVE Ancestors(_)
Ancestors(slice) ==
    UNION { {slice[i]} \cup Ancestors(slice[i].parents) : i \in 1..Len(slice) }

\* the back-edges of the Ancestor recorded for a Handle, as a set
BackEdges(g, h) ==
    LET a == get_from_lineage(g.inner, g.lineages[h][2])
    IN { a.children[i] : i \in 1..Len(a.children) }

\* the last operation was a merge that returned: the container held a graph and the
\* target was in it
Merged ==
    /\ last.op = "set_parents"
    /\ last.pre # None
    /\ ~panicked

\* the positions of the incoming Tasks whose Handle the graph held before the call
ExistingBefore ==
    { i \in 1..Len(last.parents) : last.parents[i].handle \in DOMAIN last.pre.lineages }

\* the incoming Handles the graph did not hold before the call
NewHandles ==
    { last.parents[i].handle : i \in 1..Len(last.parents) } \ DOMAIN last.pre.lineages

\* C7: immediately after AncestorGraph::new(root) the graph has exactly one node:
\* iter() yields one element, the root, recorded with OrderingIndex 0 and Lineage [0].
C7_NewGraph ==
    last.op = "set_main_handle" =>
        /\ len(ancestry) = 1
        /\ iter(ancestry) = <<last.handle>>
        /\ Cardinality(Ancestors(ancestry.inner)) = 1
        /\ DOMAIN ancestry.lineages = {last.handle}
        /\ ancestry.lineages[last.handle] = <<0, <<0>>>>

C7_Witness ==
    /\ last.op = "set_main_handle"
    /\ last.pre # None
    /\ len(last.pre) = 3
    /\ len(ancestry) = 1

\* C8 as stated: after merge_new_parents with k incoming Tasks of which m have Handles
\* the graph already held, the node count has increased by exactly k - m.
C8_NodeCount_AsStated ==
    Merged =>
        /\ len(ancestry) = len(last.pre) + Len(last.parents) - Cardinality(ExistingBefore)
        /\ Len(iter(ancestry)) = len(ancestry)

\* C8 (amended): the node count has increased by exactly the number of distinct
\* incoming Handles the graph did not hold before, which is k - m when the incoming
\* Tasks with new Handles have pairwise distinct Handles.
C8_NodeCount ==
    Merged =>
        /\ len(ancestry) = len(last.pre) + Cardinality(NewHandles)
        /\ Len(iter(ancestry)) = len(ancestry)
        /\ Cardinality(Ancestors(ancestry.inner)) = len(ancestry)
        /\ (\A i, j \in (1..Len(last.parents)) \ ExistingBefore :
                last.parents[i].handle = last.parents[j].handle => i = j)
              => len(ancestry) = len(last.pre) + Len(last.parents) - Cardinality(ExistingBefore)

C8_Witness ==
    /\ Merged
    /\ len(last.pre) = 2
    /\ Len(last.parents) = 2
    /\ Cardinality(ExistingBefore) = 1
    /\ len(ancestry) = 3

\* C9: after merge_new_parents(target, incoming), for every incoming Task (h, op)
\* whose Handle the graph already held, the back-edge list of h's node contains
\* (OrderingIndex of target, op).
C9_BackEdgeRecorded ==
    Merged =>
        \A i \in ExistingBefore :
            <<ancestry.lineages[last.handle][1], last.parents[i].operation>>
                \in BackEdges(ancestry, last.parents[i].handle)

\* C10: in every reachable graph no node's back-edge list holds the same
\* (OrderingIndex, Operation) pair more than once.
C10_NoDuplicateBackEdges ==
    ancestry # None =>
        \A a \in Ancestors(ancestry.inner) :
            \A i, j \in 1..Len(a.children) : a.children[i] = a.children[j] => i = j

\* a merge repeated a back-edge its node already held
C10_Witness ==
    /\ Merged
    /\ \E i \in ExistingBefore :
          /\ <<last.pre.lineages[last.handle][1], last.parents[i].operation>>
                \in BackEdges(last.pre, last.parents[i].handle)
          /\ last.parents[i].handle # last.handle
          /\ get_from_lineage(ancestry.inner,
                              ancestry.lineages[last.parents[i].handle][2]).children
                = <<<<last.pre.lineages[last.handle][1], last.parents[i].operation>>>>


\* the Handles of the Ancestors owned by a slice, in depth-first order (one entry per
\* Ancestor, so a Handle owned twice appears twice)
OwnedHandles(g) == push_elements(g.inner)

NoRepeats(seq) == \A i, j \in 1..Len(seq) : seq[i] = seq[j] => i = j

\* C11: in every reachable graph each Handle occurs in at most one node of the owned
\* tree and at most once in ordering, so Handle -> OrderingIndex is injective; a Task
\* whose Handle is already known anywhere in the tree never creates a node.
C11_HandleUnique ==
    /\ ancestry # None =>
          /\ NoRepeats(OwnedHandles(ancestry))
          /\ NoRepeats(ancestry.ordering)
          /\ \A h1, h2 \in DOMAIN ancestry.lineages :
                ancestry.lineages[h1][1] = ancestry.lineages[h2][1] => h1 = h2
    /\ Merged =>
          /\ \A i \in ExistingBefore :
                Cardinality({ k \in 1..Len(ancestry.ordering) :
                                ancestry.ordering[k] = last.parents[i].handle }) = 1
          /\ NewHandles = {} => /\ ancestry.ordering = last.pre.ordering
                                /\ OwnedHandles(ancestry) = OwnedHandles(last.pre)

\* a merge named a Handle owned above the root (neither the root nor the target) and
\* created no node for it
C11_Witness ==
    /\ Merged
    /\ len(last.pre) = 3
    /\ len(ancestry) = 3
    /\ \E i \in ExistingBefore :
          /\ last.parents[i].handle # last.handle
          /\ last.pre.lineages[last.parents[i].handle][1] > 0

\* C12: the OrderingIndex and Lineage recorded for a Handle when its node was created
\* are not changed by any later merge, and the Lineage still leads to that node.
C12_IdentityStable ==
    Merged =>
        \A h \in DOMAIN last.pre.lineages :
            /\ h \in DOMAIN ancestry.lineages
            /\ ancestry.lineages[h] = last.pre.lineages[h]
            /\ get_from_lineage(ancestry.inner, ancestry.lineages[h][2]).content = h

\* a merge added a node next to an existing sibling
C12_Witness ==
    /\ Merged
    /\ len(last.pre) = 2
    /\ len(ancestry) = 3
    /\ last.handle = last.pre.ordering[1]
    /\ ancestry.lineages[ancestry.ordering[3]][2] = <<0, 1>>

IsPrefix(a, b) == Len(a) <= Len(b) /\ \A i \in 1..Len(a) : a[i] = b[i]

\* Ancestor b holds everything Ancestor a holds, at the same places
RECURSIVE Grows(_, _)
Grows(a, b) ==
    /\ a.content = b.content
    /\ IsPrefix(a.children, b.children)
    /\ Len(a.parents) <= Len(b.parents)
    /\ \A i \in 1..Len(a.parents) : Grows(a.parents[i], b.parents[i])

\* C13: a merge only grows the graph: every node, every owned parent-of relation and
\* every back-edge present before the call is present after it, at the same place
\* under the same owner, also when the list omits a parent merged earlier.
C13_OnlyGrows ==
    Merged =>
        /\ Grows(last.pre.inner[1], ancestry.inner[1])
        /\ IsPrefix(last.pre.ordering, ancestry.ordering)
        /\ DOMAIN last.pre.lineages \subseteq DOMAIN ancestry.lineages

\* a later result for the same target omits a parent merged earlier, and the parent
\* is kept
C13_Witness ==
    /\ Merged
    /\ len(last.pre) >= 2
    /\ LET target == get_from_lineage(last.pre.inner, last.pre.lineages[last.handle][2])
       IN /\ Len(target.parents) >= 1
          /\ \A i \in 1..Len(last.parents) :
                last.parents[i].handle # target.parents[1].content
          /\ Len(last.parents) >= 1
          /\ get_from_lineage(ancestry.inner, ancestry.lineages[last.handle][2]).parents[1]
                = target.parents[1]

\* the Handles of seq that are not in known, each once, in order of first occurrence
RECURSIVE FirstOccurrences(_, _)
FirstOccurrences(seq, known) ==
    IF seq = <<>> THEN <<>>
    ELSE IF Head(seq) \in known THEN FirstOccurrences(Tail(seq), known)
    ELSE <<Head(seq)>> \o FirstOccurrences(Tail(seq), known \cup {Head(seq)})

\* C14: iter yields the nodes in insertion order: element i is the node recorded with
\* OrderingIndex i, the root first, and the sequence yielded before a merge is a prefix
\* of the one yielded after it, extended by the nodes the merge created in the order
\* it created them.
C14_IterInsertionOrder ==
    /\ ancestry # None =>
          \A i \in 1..Len(iter(ancestry)) :
              ancestry.lineages[iter(ancestry)[i]][1] = i - 1
    /\ last.op = "set_main_handle" => iter(ancestry) = <<last.handle>>
    /\ Merged =>
          /\ IsPrefix(iter(last.pre), iter(ancestry))
          /\ iter(ancestry) = iter(last.pre) \o
                FirstOccurrences([i \in 1..Len(last.parents) |-> last.parents[i].handle],
                                 DOMAIN last.pre.lineages)

\* a merge created a node above a parent that has a later sibling, so insertion
\* order and depth-first order differ
C14_Witness ==
    /\ Merged
    /\ len(ancestry) = 4
    /\ ancestry.lineages[ancestry.ordering[4]][2] = <<0, 0, 0>>
    /\ ancestry.lineages[ancestry.ordering[3]][2] = <<0, 1>>

\* C15: merge_new_parents is idempotent: calling it again with the same target and
\* Task list leaves nodes, ordering, lineages and every back-edge list as the first
\* call left them.
C15_Idempotent ==
    Merged => merge_new_parents(ancestry, last.handle, last.parents) = ancestry

\* [(A, Apply)] was merged into root R a second time: 2 nodes, one (R, Apply)
\* back-edge on A
C15_Witness ==
    /\ Merged
    /\ last.parents = <<Task(2, "Apply")>>
    /\ last.handle = 1
    /\ last.pre.ordering = <<1, 2>>
    /\ ancestry = last.pre
    /\ len(ancestry) = 2
    /\ get_from_lineage(ancestry.inner, ancestry.lineages[2][2]).children = <<<<0, "Apply">>>>

\* C16: merge_new_parents with a target Handle that is not in the graph gives a
\* NotFound outcome, leaves the graph unchanged and does not terminate the process.
C16_NotFound ==
    (last.op = "set_parents" /\ last.pre # None /\ last.handle \notin DOMAIN last.pre.lineages)
        => /\ ~panicked
           /\ ancestry = last.pre

\* C17: the container has two states, Empty (no root) and Rooted: it starts Empty,
\* set_parents in Empty performs no merge and leaves it Empty, only set_main_handle
\* takes it out of Empty, and once Rooted no operation returns it to Empty.
C17_TwoStates ==
    /\ last.op = "init" => ancestry = None
    /\ (last.op = "set_parents" /\ last.pre = None) => ancestry = None
    /\ (last.op # "init" /\ last.pre = None /\ ancestry # None) => last.op = "set_main_handle"
    /\ (last.op # "init" /\ last.pre # None) => ancestry # None
    /\ ancestry # None =>
          /\ DOMAIN ancestry = {"inner", "lineages", "ordering"}
          /\ Len(ancestry.inner) = 1

\* set_parents with a non-empty list was called on the Empty container
C17_Witness ==
    /\ last.op = "set_parents"
    /\ last.pre = None
    /\ Len(last.parents) = 2
    /\ ancestry = None
    /\ steps = 2

\* C18: set_main_handle(h) discards the previous graph: whatever the prior state, the
\* graph afterwards is one node with Handle h, no parents and no back-edges.
C18_SetMainHandleDiscards ==
    last.op = "set_main_handle" =>
        /\ ancestry.inner = <<[content |-> last.handle, parents |-> <<>>, children |-> <<>>]>>
        /\ ancestry.ordering = <<last.handle>>
        /\ \A h \in GraphHandles \ {last.handle} : h \notin DOMAIN ancestry.lineages
        /\ OwnedHandles(ancestry) = <<last.handle>>

\* the discarded graph had a parent with a back-edge, and the new root is that parent
C18_Witness ==
    /\ last.op = "set_main_handle"
    /\ last.pre # None
    /\ len(last.pre) >= 2
    /\ last.handle = last.pre.ordering[2]
    /\ Len(last.pre.inner[1].parents[1].children) = 1
    /\ len(ancestry) = 1


-----------------------------------------------------------------------------
(* Graph and MainAncestor (graph.rs), Element (plot.rs) *)

\* ElementContent::Handle and ElementContent::Task
ElementContent_Handle(h) == [tag |-> "Handle", handle |-> h]
ElementContent_Task(task) == [tag |-> "Task", task |-> task]

\* Element::get_handle
get_handle(content) ==
    IF content.tag = "Handle" THEN content.handle ELSE content.task.handle

\* MainAncestor::new
MainAncestor_new(element) == [inner |-> <<[content |-> element, parents |-> <<>>]>>]

\* the contents of a slice of Ancestors with every Ancestor after its parents
RECURSIVE push_elements_postfix(_)
push_elements_postfix(current_list) ==
    IF current_list = <<>> THEN <<>>
    ELSE push_elements_postfix(Head(current_list).parents) \o <<Head(current_list).content>>
            \o push_elements_postfix(Tail(current_list))

MainAncestor_iter_postfix(m) == push_elements_postfix(m.inner)

\* MainAncestor::iter
MainAncestor_iter(m) == push_elements(m.inner)

\* Graph::iter
Graph_iter(g) == IF g = None THEN <<>> ELSE MainAncestor_iter(g)

\* find_rec of MainAncestor::find: the place (list positions from the root list, counted
\* from 1) of the first Ancestor with the Handle in prefix depth-first order, <<>> for
\* Option::None
RECURSIVE find_rec(_, _)
find_rec(current_list, h) ==
    LET found(i) == IF get_handle(current_list[i].content) = h THEN <<i>>
                    ELSE LET below == find_rec(current_list[i].parents, h)
                         IN IF below = <<>> THEN <<>> ELSE <<i>> \o below
        hits == { i \in 1..Len(current_list) : found(i) # <<>> }
    IN IF hits = {} THEN <<>>
       ELSE found(CHOOSE i \in hits : \A j \in hits : i <= j)

\* the Ancestor at a place
RECURSIVE ancestor_at(_, _)
ancestor_at(current_list, place) ==
    IF Len(place) = 1 THEN current_list[place[1]]
    ELSE ancestor_at(current_list[place[1]].parents, Tail(place))

\* a write through the &mut Ancestor that find returned
RECURSIVE replace_at(_, _, _)
replace_at(current_list, place, ancestor) ==
    [i \in 1..Len(current_list) |->
        IF i # place[1] THEN current_list[i]
        ELSE IF Len(place) = 1 THEN ancestor
        ELSE [content |-> current_list[i].content,
              parents |-> replace_at(current_list[i].parents, Tail(place), ancestor)]]

\* Ancestor::merge_parents (graph.rs)
RECURSIVE merge_parents(_, _)
merge_parents(a, incoming_parents) ==
    IF incoming_parents = <<>> THEN a
    ELSE LET element == Head(incoming_parents)
             pushed == IF \A i \in 1..Len(a.parents) : a.parents[i].content # element
                       THEN [content |-> a.content,
                             parents |-> Append(a.parents,
                                                [content |-> element, parents |-> <<>>])]
                       ELSE a
         IN merge_parents(pushed, Tail(incoming_parents))

\* MainAncestor::merge_new_parents that falls back to the main Ancestor
MainAncestor_merge_new_parents_into_main(m, h, incoming_parents) ==
    LET place == IF find_rec(m.inner, h) = <<>> THEN <<1>> ELSE find_rec(m.inner, h)
    IN [inner |-> replace_at(m.inner, place,
                             merge_parents(ancestor_at(m.inner, place), incoming_parents))]

\* MainAncestor::merge_new_parents
MainAncestor_merge_new_parents(m, h, incoming_parents) ==
    LET place == find_rec(m.inner, h)
    IN IF place = <<>> THEN m
       ELSE [inner |-> replace_at(m.inner, place,
                                  merge_parents(ancestor_at(m.inner, place), incoming_parents))]

\* Graph::set_main_handle: the new value of Graph.main
Graph_set_main_handle(h) == MainAncestor_new(ElementContent_Handle(h))

\* Graph::set_parents: the new value of Graph.main
Graph_set_parents(g, h, parents) ==
    LET elements == [i \in 1..Len(parents) |-> ElementContent_Task(parents[i])]
    IN IF g = None THEN g ELSE MainAncestor_merge_new_parents(g, h, elements)

\* Graph::get_graph_index: TRUE for Some(GraphIndex::Ancestor(index))
get_graph_index(g, index) ==
    g # None /\ index >= 0 /\ index < Len(MainAncestor_iter(g))

\* get_location_rec of MainAncestor::get_draw_parameters, its find_map from position i
\* on: the list found (innermost position first) and what is left of *index
RECURSIVE find_map_from(_, _, _)
find_map_from(current_list, i, index) ==
    IF i >= Len(current_list) THEN [list |-> None, index |-> index]
    ELSE IF index = 0 THEN [list |-> [tag |-> "Some", value |-> <<i>>], index |-> index]
    ELSE LET below == find_map_from(current_list[i + 1].parents, 0, index - 1)
         IN IF below.list # None
            THEN [list |-> [tag |-> "Some", value |-> Append(below.list.value, i)],
                  index |-> below.index]
            ELSE find_map_from(current_list, i + 1, below.index)

\* get_location_rec
get_location_rec(current_list, index) == find_map_from(current_list, 0, index).list

\* vec.reverse()
reverse(vec) == [k \in 1..Len(vec) |-> vec[Len(vec) + 1 - k]]

\* the for loop of MainAncestor::get_draw_parameters over the rest of the lineage
RECURSIVE MainAncestor_draw_loop(_, _, _, _)
MainAncestor_draw_loop(current_generation, lineage, pos, scale) ==
    IF lineage = <<>> THEN [pos |-> pos, scale |-> scale]
    ELSE LET lineage_index == Head(lineage)
             generation_scale == FracDiv(scale, F32(Len(current_generation)))
             step_size == generation_scale
         IN MainAncestor_draw_loop(
                current_generation[lineage_index + 1].parents, Tail(lineage),
                <<FracAdd(pos[1],
                          FracMul(step_size,
                                  x_step_offset_to_center(lineage_index,
                                                          Len(current_generation)))),
                  FracAdd(pos[2], generation_scale)>>,
                generation_scale)

\* MainAncestor::get_draw_parameters: the lineage it locates, the position and the
\* scale; a Panic when the index is not in the ancestors (expect)
MainAncestor_get_draw_parameters(m, index) ==
    LET vec == get_location_rec(m.inner, index)
    IN IF vec = None THEN [tag |-> "Panic"]
       ELSE LET lineage == reverse(vec.value)
                drawn == MainAncestor_draw_loop(m.inner, lineage, <<F32(0), F32(0)>>, F32(1))
            IN [tag |-> "Drawn", lineage |-> lineage, pos |-> drawn.pos, scale |-> drawn.scale]

\* Graph::handle_nearby_click with the bounds test on the open box
handle_nearby_click_open_box(g, index, bounds, p) ==
    IF index >= Len(Graph_iter(g)) THEN None
    ELSE LET elem_contains_p == /\ bounds.min[1] < p[1] /\ p[1] < bounds.max[1]
                                /\ bounds.min[2] < p[2] /\ p[2] < bounds.max[2]
         IN IF elem_contains_p THEN get_handle(Graph_iter(g)[index + 1]) ELSE None

\* Graph::handle_nearby_click: the Handle the request callback is called with, None when
\* it is not called; bounds is elem.bounds(params) with its corners min and max as
\* <<x, y>>, p the clicked point
handle_nearby_click(g, index, bounds, p) ==
    IF index >= Len(Graph_iter(g)) THEN None
    ELSE LET elem_contains_p == /\ bounds.min[1] <= p[1] /\ p[1] <= bounds.max[1]
                                /\ bounds.min[2] <= p[2] /\ p[2] <= bounds.max[2]
         IN IF elem_contains_p THEN get_handle(Graph_iter(g)[index + 1]) ELSE None


-----------------------------------------------------------------------------
(* Transport (http.rs) *)

DecimalDigits == <<"0", "1", "2", "3", "4", "5", "6", "7", "8", "9">>

\* str::parse::<u8>: an optional '+', then one or more decimal digits, value at most
\* u8::MAX
RECURSIVE parse_digits(_, _)
parse_digits(digits, acc) ==
    IF digits = <<>> THEN Ok(acc)
    ELSE IF \A d \in 1..10 : DecimalDigits[d] # Head(digits) THEN Err("InvalidDigit")
    ELSE LET d == CHOOSE d \in 1..10 : DecimalDigits[d] = Head(digits)
             next == acc * 10 + (d - 1)
         IN IF next > 255 THEN Err("PosOverflow") ELSE parse_digits(Tail(digits), next)

\* u8::from_str that takes no sign
parse_u8_no_sign(text) ==
    IF text = <<>> THEN Err("Empty") ELSE parse_digits(text, 0)

parse_u8(text) ==
    IF text = <<>> THEN Err("Empty")
    ELSE LET digits == IF Head(text) = "+" THEN Tail(text) ELSE text
         IN IF digits = <<>> THEN Err("InvalidDigit") ELSE parse_digits(digits, 0)

\* impl TryFrom<u8> for Operation
Operation_try_from(value) ==
    CASE value = 0 -> Ok("Apply")
      [] value = 1 -> Ok("Eval")
      [] value = 2 -> Ok("Fill")
      [] OTHER -> Err("Invalid number for Operation")

\* an anyhow error with a context in front of it
context(result, msg) == IF result.ok THEN result ELSE Err(<<msg>> \o result.err)

Some(v) == [tag |-> "Some", value |-> v]

\* anyhow::Error::root_cause
root_cause(e) == e[Len(e)]


-----------------------------------------------------------------------------
(* The application (app.rs) *)

\* the largest number of update frames and of dispatched fetches, and the longest
\* parents list of a response
MaxFrames == 3
MaxFetches == 2
MaxParents == 2

\* Storage::default().target is Handle::from_hex of this text
DefaultTargetText == join(<<<<"0">>, <<"0">>, <<"0">>, <<"2", "4">> \o Zeros(14)>>)

\* texts that parse as Handles: the default and "0-0-0-0"
ValidTexts ==
    { DefaultTargetText,
      join(<<<<"0">>, <<"0">>, <<"0">>, <<"0">>>>) }

\* texts that do not: three fields, accessibility bits 11
InvalidTexts ==
    { join(<<<<"0">>, <<"0">>, <<"0">>>>),
      join(<<<<"0">>, <<"0">>, <<"0">>, <<"c">> \o Zeros(15)>>) }

\* what the operator may type into the "Target" box
TargetTexts == ValidTexts \cup InvalidTexts

\* the persisted Storage.target: the default, or a Handle whose to_hex does not parse
\* (a Literal with size 192)
StoredTargets ==
    { from_hex(DefaultTargetText).value,
      Handle(U64(0, 192), "Strict", Literal(Rep(0, LITERAL_CONTENT_LENGTH))) }

\* what a server may answer
JsonOperations == { <<"0">>, <<"1">>, <<"3">>, <<"x">> }
JsonHandles == ValidTexts \cup { join(<<<<"0">>, <<"0">>, <<"0">>>>) }
JsonTasks == { [handle |-> h, operation |-> op] : h \in JsonHandles, op \in JsonOperations }
JsonResponses ==
    { [parents |-> None] } \cup
    { [parents |-> Some(l)] : l \in UNION { [1..n -> JsonTasks] : n \in 0..MaxParents } }

\* what the network may do with one fetch
Outcomes ==
    { [tag |-> "request_failed", kind |-> k] : k \in {"timeout"} }
    \cup { [tag |-> "bad_json"] }
    \cup { [tag |-> "json", json |-> j] : j \in JsonResponses }

\* Handle::from_hex and Handle::to_hex over the texts and Handles the application
\* meets, computed once
FromHexTable ==
    { <<t, from_hex(t)>> : t \in TargetTexts \cup JsonHandles \cup { to_hex(h) : h \in StoredTargets } }
ToHexTable == { <<h, to_hex(h)>> : h \in StoredTargets }
Handle_from_hex(text) == (CHOOSE p \in FromHexTable : p[1] = text)[2]
Handle_to_hex(h) == (CHOOSE p \in ToHexTable : p[1] = h)[2]

\* the closure of get_parents applied to one JsonTask
json_task(t) ==
    LET parsed_handle == Handle_from_hex(t.handle)
        parsed_u8 == parse_u8(t.operation)
        h == context(IF parsed_handle.ok THEN parsed_handle ELSE Err(<<parsed_handle.err>>),
                     "parsing handle")
        n == context(IF parsed_u8.ok THEN parsed_u8 ELSE Err(<<parsed_u8.err>>),
                     "parsing operation as u8")
        cast == Operation_try_from(n.value)
        op == IF n.ok
              THEN context(IF cast.ok THEN cast ELSE Err(<<cast.err>>),
                           "casting u8 to operation")
              ELSE n
    IN IF ~h.ok THEN h
       ELSE IF ~op.ok THEN op
       ELSE Ok(Task(h.value, op.value))

\* filter_map(Result::ok).collect(): the values that converted
RECURSIVE collect_valid(_)
collect_valid(results) ==
    IF results = <<>> THEN Ok(<<>>)
    ELSE LET rest == collect_valid(Tail(results)).value
         IN Ok(IF Head(results).ok THEN <<Head(results).value>> \o rest ELSE rest)

\* collect::<Result<Vec<_>>>(): the first Err, else every value
collect(results) ==
    IF \E i \in 1..Len(results) : ~results[i].ok
    THEN results[CHOOSE i \in 1..Len(results) :
                    ~results[i].ok /\ \A j \in 1..(i - 1) : results[j].ok]
    ELSE Ok([i \in 1..Len(results) |-> results[i].value])

\* Response::Parents
Parents(tasks) == [tag |-> "Parents", tasks |-> tasks]

\* the closure get_parents hands to get: JsonResponse -> Result<Response>
get_parents_map(json) ==
    IF json.parents = None THEN Ok(Parents(None))
    ELSE LET tasks == collect([i \in 1..Len(json.parents.value) |->
                                   json_task(json.parents.value[i])])
         IN IF tasks.ok THEN Ok(Parents(Some(tasks.value))) ELSE tasks

\* the message the task of get sends for one fetch: outcome is what the network did
get(h, outcome) ==
    CASE outcome.tag = "request_failed" ->
            [handle |-> h, result |-> Err(<<"request failed: " \o outcome.kind \o " error">>)]
      [] outcome.tag = "bad_json" ->
            [handle |-> h, result |-> Err(<<"parsing json", "reqwest::Error">>)]
      [] outcome.tag = "json" ->
            [handle |-> h, result |-> get_parents_map(outcome.json)]

\* Element::bounds of the element near the click
ElementBounds == [min |-> <<1, 1>>, max |-> <<3, 3>>]

\* the clicks on the plot that find_closest can pair with an element of the Graph
Clicks(g) ==
    { None } \cup
    { [index |-> i, bounds |-> ElementBounds, p |-> p] :
        i \in 0..(Len(Graph_iter(g)) - 1), p \in { <<2, 2>>, <<0, 0>> } }

\* State::default, Storage
AppInit ==
    /\ target_input = <<>>
    /\ storage_target \in StoredTargets
    /\ error = <<>>
    /\ first_render = TRUE
    /\ main = None
    /\ rx = <<>>
    /\ spawned = <<>>
    /\ fetches = 0
    /\ frames = 0
    /\ frame = [op |-> "new"]
    /\ CodecIdle
    /\ GraphIdle
    /\ FunIdle
    /\ ChannelIdle

target_box_resets_on_error(edit) ==
    LET text == IF first_render THEN Handle_to_hex(storage_target)
                ELSE IF edit = None THEN target_input ELSE edit.value
        result == Handle_from_hex(text)
    IN IF edit # None \/ first_render
       THEN IF result.ok
            THEN <<text, result.value, Graph_set_main_handle(result.value), <<>>, result>>
            ELSE <<text, storage_target, None, <<result.err>>, result>>
       ELSE <<text, storage_target, main, error, None>>

\* the "Target" box that roots the graph and keeps the stored target
target_box_keeps_stored_target(edit) ==
    LET text == IF first_render THEN Handle_to_hex(storage_target)
                ELSE IF edit = None THEN target_input ELSE edit.value
        result == Handle_from_hex(text)
    IN IF edit # None \/ first_render
       THEN IF result.ok
            THEN <<text, storage_target, Graph_set_main_handle(result.value), <<>>, result>>
            ELSE <<text, storage_target, main, <<result.err>>, result>>
       ELSE <<text, storage_target, main, error, None>>

\* the "Target" box of App::update: the new <<target_input, storage.target, graph.main,
\* error>> and the Result of Handle::from_hex (None when it was not called); edit is
\* Some(the text typed this frame), None when the box did not change
target_box(edit) ==
    LET text == IF first_render THEN Handle_to_hex(storage_target)
                ELSE IF edit = None THEN target_input ELSE edit.value
        result == Handle_from_hex(text)
    IN IF edit # None \/ first_render
       THEN IF result.ok
            THEN <<text, result.value, Graph_set_main_handle(result.value), <<>>, result>>
            ELSE <<text, storage_target, main, <<result.err>>, result>>
       ELSE <<text, storage_target, main, error, None>>

\* the match of App::update on a received (handle, result): the new <<graph.main, error>>
\* (get_parents sends Response::Parents only, so the todo!() arm is never taken)
received(http_result, g, e) ==
    LET handle_0 == http_result.handle
    IN IF http_result.result.ok
       THEN IF http_result.result.value.tasks # None
            THEN <<Graph_set_parents(g, handle_0, http_result.result.value.tasks.value), e>>
            ELSE <<g, e>>
       ELSE <<g, <<"Failed http request: ", root_cause(http_result.result.err), ".">>>>

try_recv_retracts_on_error(g, e) ==
    IF rx = <<>> THEN <<g, e>>
    ELSE IF Head(rx).result.ok THEN received(Head(rx), g, e)
    ELSE <<None, <<"Failed http request: ", root_cause(Head(rx).result.err), ".">>>>

\* the rx.try_recv() arm of App::update: the new <<graph.main, error>>
try_recv(g, e) ==
    IF rx = <<>> THEN <<g, e>> ELSE received(Head(rx), g, e)

\* the end of a frame of App::update: the fetches dispatched by "Get Parent" and by the
\* click are spawned and the new state is in place
update_end(edit, get_parent, box, drained, click, requested) ==
    LET dispatched == (IF get_parent THEN <<box[2]>> ELSE <<>>)
                        \o (IF requested = None THEN <<>> ELSE <<requested>>)
    IN /\ fetches + Len(dispatched) <= MaxFetches
       /\ target_input' = box[1]
       /\ storage_target' = box[2]
       /\ main' = drained[1]
       /\ error' = drained[2]
       /\ rx' = IF rx = <<>> THEN rx ELSE Tail(rx)
       /\ spawned' = spawned \o dispatched
       /\ fetches' = fetches + Len(dispatched)
       /\ frame' = [op |-> "update", edit |-> edit, first_render |-> first_render,
                    parse |-> box[5],
                    get_parent |-> get_parent,
                    received |-> IF rx = <<>> THEN None ELSE Head(rx),
                    click |-> click, requested |-> requested,
                    pre |-> [target_input |-> target_input,
                             storage_target |-> storage_target,
                             main |-> main, error |-> error,
                             rx |-> rx, spawned |-> spawned]]

\* the CentralPanel of App::update: a click on the plot near an element
central_panel(edit, get_parent, box, drained) ==
    \E click \in Clicks(drained[1]) :
        update_end(edit, get_parent, box, drained, click,
                   IF click = None THEN None
                   ELSE handle_nearby_click(drained[1], click.index, click.bounds, click.p))

\* the SidePanel of App::update after the "Target" box: "Get Parent" and rx.try_recv()
side_panel(edit, get_parent, box) ==
    central_panel(edit, get_parent, box, try_recv(box[3], box[4]))

\* App::update, one frame
Update(edit, get_parent) ==
    /\ frames < MaxFrames
    /\ edit # None => (~first_render /\ edit.value # target_input)
    /\ side_panel(edit, get_parent, target_box(edit))
    /\ first_render' = FALSE
    /\ frames' = frames + 1
    /\ UNCHANGED <<codecVars, graphVars, funVars, channelVars>>

\* the task spawned by get finishes: it sends its one message
Deliver(i, outcome) ==
    /\ i \in 1..Len(spawned)
    /\ rx' = Append(rx, get(spawned[i], outcome))
    /\ spawned' = [k \in 1..(Len(spawned) - 1) |-> IF k < i THEN spawned[k] ELSE spawned[k + 1]]
    /\ frame' = [op |-> "deliver", handle |-> spawned[i]]
    /\ UNCHANGED <<target_input, storage_target, error, first_render, main, fetches, frames,
                   codecVars, graphVars, funVars, channelVars>>

AppNext ==
    \/ \E edit \in {None} \cup { Some(t) : t \in TargetTexts }, get_parent \in BOOLEAN :
          Update(edit, get_parent)
    \/ \E i \in 1..MaxFetches, outcome \in Outcomes : Deliver(i, outcome)

SpecApp == AppInit /\ [][AppNext]_vars


-----------------------------------------------------------------------------
(* Properties of the application, checked under SpecApp *)

\* the last step was a frame in which the target text was parsed and did not parse
ParseFailed ==
    /\ frame.op = "update"
    /\ frame.parse # None
    /\ ~frame.parse.ok

\* the last step was a frame that received a fetch result that is an error
ReceivedError ==
    /\ frame.op = "update"
    /\ frame.received # None
    /\ ~frame.received.result.ok

\* the last step was a frame that received a parents list
ReceivedParents ==
    /\ frame.op = "update"
    /\ frame.received # None
    /\ frame.received.result.ok
    /\ frame.received.result.value.tasks # None

\* C19: when the target text fails to parse, the triggering action is blocked: the
\* stored target Handle and the graph are as before the frame (the graph apart from a
\* parents list received in the same frame, merged into the graph as it was), and the
\* error message is the parse error unless a failed fetch result replaced it.
C19_ParseErrorBlocks ==
    ParseFailed =>
        /\ storage_target = frame.pre.storage_target
        /\ main = IF ReceivedParents
                  THEN Graph_set_parents(frame.pre.main, frame.received.handle,
                                         frame.received.result.value.tasks.value)
                  ELSE frame.pre.main
        /\ ~ReceivedParents => Graph_iter(main) = Graph_iter(frame.pre.main)
        /\ ~ReceivedError => error = <<frame.parse.err>>
        /\ frame.get_parent => spawned[Len(frame.pre.spawned) + 1] = frame.pre.storage_target

\* the operator typed a text that does not parse over a graph with merged parents
C19_Witness ==
    /\ ParseFailed
    /\ frame.edit # None
    /\ frame.received = None
    /\ Len(Graph_iter(frame.pre.main)) >= 2
    /\ main = frame.pre.main
    /\ error # frame.pre.error
    /\ frame.pre.error = <<>>

\* C20: when the fetch result received in a frame is an error, the graph is not
\* modified by it: every node merged before is retained (the graph is what the target
\* box of the same frame left) and the error text is that of the failed request.
C20_FetchErrorKeepsGraph ==
    ReceivedError =>
        /\ main = IF frame.parse # None /\ frame.parse.ok
                  THEN Graph_set_main_handle(frame.parse.value)
                  ELSE frame.pre.main
        /\ (frame.parse = None \/ ~frame.parse.ok) =>
              /\ Graph_iter(main) = Graph_iter(frame.pre.main)
              /\ storage_target = frame.pre.storage_target
        /\ error = <<"Failed http request: ", root_cause(frame.received.result.err), ".">>
        /\ rx = Tail(frame.pre.rx)

\* a failed fetch result was received over a graph with merged parents
C20_Witness ==
    /\ ReceivedError
    /\ frame.parse = None
    /\ Len(Graph_iter(frame.pre.main)) >= 2
    /\ main = frame.pre.main
    /\ error # frame.pre.error


-----------------------------------------------------------------------------
(* Functions applied to drawn arguments: Graph::handle_nearby_click over    *)
(* clicked points and element bounds, the closure of get_parents over       *)
(* operation strings, and AncestorGraph::get_draw_parameters over graphs.    *)

\* the clicked points are the grid 0..GridMax squared
GridMax == 4
ClickPoints == (0..GridMax) \X (0..GridMax)

\* element bounds: a box with an interior, and a box of no width
BoundsPool ==
    { [min |-> <<1, 1>>, max |-> <<3, 3>>],
      [min |-> <<2, 1>>, max |-> <<2, 3>>] }

\* the Graphs clicked on: no main Handle, the main Handle alone, the main Handle with
\* two parents
ClickGraphs ==
    LET h0 == Handle_from_hex(DefaultTargetText).value
        h1 == Handle_from_hex(join(<<<<"0">>, <<"0">>, <<"0">>, <<"0">>>>)).value
    IN { None,
         Graph_set_main_handle(h0),
         Graph_set_parents(Graph_set_main_handle(h0), h0,
                           <<Task(h1, "Apply"), Task(h0, "Eval")>>) }

\* ClosestElem.index: one more than the largest Graph has elements
ClickIndices == 0..3

\* the operation strings of a JsonTask: every text of at most MaxOperationLen characters
MaxOperationLen == 3
OperationChars == {"0", "1", "2", "3", "+", "-", "x"}
OperationTexts == UNION { [1..n -> OperationChars] : n \in 0..MaxOperationLen }

\* the tasks that precede the one under test in the response
TasksBefore == { <<>>, <<[handle |-> DefaultTargetText, operation |-> <<"1">>]>> }

\* the graphs drawn: a root, a merge into it of at most MaxDrawn distinct parents and a
\* merge into any node of at most two parents, over the Handles 1..DrawHandles
DrawHandles == 6
MaxDrawn == 3

\* the Tasks with the Handles of a set, in ascending order
RECURSIVE Ascending(_)
Ascending(hs) ==
    IF hs = {} THEN <<>>
    ELSE LET least == CHOOSE h \in hs : \A k \in hs : h <= k
         IN <<Task(least, "Apply")>> \o Ascending(hs \ {least})

DrawnFirst == { Ascending(hs) : hs \in { x \in SUBSET (1..DrawHandles) : Cardinality(x) <= MaxDrawn } }
DrawnSecond == UNION { [1..k -> { Task(h, "Apply") : h \in 1..DrawHandles }] : k \in 0..2 }
DrawnOnce == { merge_new_parents(AncestorGraph_new(1), 1, l) : l \in DrawnFirst }
DrawGraphs ==
    UNION { { merge_new_parents(g, h, l) : h \in DOMAIN g.lineages, l \in DrawnSecond } :
            g \in DrawnOnce }

\* the graphs merged into and drawn before and after: the root 1, a first merge into it
\* and a second merge of at most two Tasks into any node, over the Handles 1..MaxRedrawn
MaxRedrawn == 4
RedrawnFirst ==
    { Ascending(hs) : hs \in { x \in SUBSET (1..MaxRedrawn) : Cardinality(x) <= MaxDrawn } }
RedrawnSecond == UNION { [1..k -> { Task(h, "Apply") : h \in 1..MaxRedrawn }] : k \in 0..2 }
RedrawnOnce == { merge_new_parents(AncestorGraph_new(1), 1, l) : l \in RedrawnFirst }
RedrawnGraphs(once) ==
    UNION { { merge_new_parents(g, h, l) : h \in DOMAIN g.lineages, l \in RedrawnSecond } :
            g \in once }

\* the Graphs indexed: a main Handle and up to two calls of set_parents with at most two
\* Tasks over the Handles 1..IndexedHandles
IndexedHandles == 3
IndexedLists ==
    UNION { [1..k -> { Task(h, op) : h \in 1..IndexedHandles, op \in {"Apply", "Eval"} }] :
            k \in 0..2 }
IndexedOnce ==
    { Graph_set_parents(Graph_set_main_handle(1), h, l) :
        h \in 1..IndexedHandles, l \in IndexedLists }
IndexedGraphs(once) ==
    { None } \cup
    UNION { { Graph_set_parents(g, h, l) : h \in 1..IndexedHandles, l \in IndexedLists } :
            g \in once }

\* the indices asked for: up to one more than the largest Graph has elements
MaxIndex == 5

\* the fetch results received: what the network did with a fetch for a Handle, and the
\* Graph the result finds
ReceivedCalls ==
    { [fn |-> "received", graph |-> g, handle |-> h, outcome |-> o] :
        g \in ClickGraphs, h \in { Handle_from_hex(t).value : t \in ValidTexts }, o \in Outcomes }

\* the calls on the Graphs indexed and on the graphs redrawn
GraphCalls(indexed, redrawn) ==
    { [fn |-> "get_graph_index", graph |-> g, index |-> i] : g \in indexed, i \in 0..MaxIndex }
    \cup
    UNION { { [fn |-> "merge_new_parents", before |-> g, target |-> h, incoming |-> l] :
                h \in DOMAIN g.lineages, l \in DrawnSecond } : g \in redrawn }

Calls ==
    ReceivedCalls \cup
    { [fn |-> "get_draw_parameters", graph |-> g] : g \in DrawGraphs }
    \cup
    { [fn |-> "handle_nearby_click", graph |-> g, index |-> i, bounds |-> b, p |-> p] :
        g \in ClickGraphs, i \in ClickIndices, b \in BoundsPool, p \in ClickPoints }
    \cup
    { [fn |-> "get_parents", before |-> l, operation |-> t] :
        l \in TasksBefore, t \in OperationTexts }

FunInit ==
    /\ call \in Calls \cup GraphCalls(IndexedGraphs(IndexedOnce), RedrawnGraphs(RedrawnOnce))
    /\ ret = None
    /\ CodecIdle
    /\ GraphIdle
    /\ AppIdle
    /\ ChannelIdle

\* Graph::handle_nearby_click is called
HandleNearbyClick ==
    /\ call.fn = "handle_nearby_click"
    /\ ret = None
    /\ ret' = Some(handle_nearby_click(call.graph, call.index, call.bounds, call.p))
    /\ UNCHANGED <<call, codecVars, graphVars, appVars, channelVars>>

\* the closure of get_parents is applied to a response whose last task has the
\* operation string
GetParents ==
    /\ call.fn = "get_parents"
    /\ ret = None
    /\ ret' = Some(get_parents_map(
                  [parents |-> Some(Append(call.before,
                                           [handle |-> DefaultTargetText,
                                            operation |-> call.operation]))]))
    /\ UNCHANGED <<call, codecVars, graphVars, appVars, channelVars>>

\* a frame is drawn: AncestorGraph::get_draw_parameters is called for every
\* OrderingIndex of the graph
GetDrawParameters ==
    /\ call.fn = "get_draw_parameters"
    /\ ret = None
    /\ ret' = Some([i \in 1..len(call.graph) |-> get_draw_parameters(call.graph, i - 1)])
    /\ UNCHANGED <<call, codecVars, graphVars, appVars, channelVars>>

\* the task of get sends its message and a frame of App::update receives it
Received ==
    /\ call.fn = "received"
    /\ ret = None
    /\ ret' = Some(received(get(call.handle, call.outcome), call.graph, <<>>))
    /\ UNCHANGED <<call, codecVars, graphVars, appVars, channelVars>>

\* an index is categorised by Graph::get_graph_index and, when it is an Ancestor index,
\* handed to Graph::get_draw_parameters, as handle_nearby_click and the drawing do;
\* the elements are those of Graph::iter
GetGraphIndex ==
    /\ call.fn = "get_graph_index"
    /\ ret = None
    /\ ret' = Some([elements |-> Graph_iter(call.graph),
                    graph_index |-> get_graph_index(call.graph, call.index),
                    params |-> IF get_graph_index(call.graph, call.index)
                               THEN MainAncestor_get_draw_parameters(call.graph, call.index)
                               ELSE None])
    /\ UNCHANGED <<call, codecVars, graphVars, appVars, channelVars>>

\* a graph is drawn, AncestorGraph::merge_new_parents merges a response into it, and the
\* graph is drawn again
MergeNewParents ==
    /\ call.fn = "merge_new_parents"
    /\ ret = None
    /\ LET merged == merge_new_parents(call.before, call.target, call.incoming)
       IN ret' = Some([graph |-> merged,
                       drawn_before |-> [i \in 1..len(call.before) |->
                                            get_draw_parameters(call.before, i - 1)],
                       drawn |-> [i \in 1..len(merged) |-> get_draw_parameters(merged, i - 1)]])
    /\ UNCHANGED <<call, codecVars, graphVars, appVars, channelVars>>

FunNext ==
    \/ HandleNearbyClick
    \/ GetParents
    \/ GetDrawParameters
    \/ Received
    \/ GetGraphIndex
    \/ MergeNewParents

SpecFun == FunInit /\ [][FunNext]_vars


-----------------------------------------------------------------------------
(* Properties of the functions, checked under SpecFun *)

\* handle_nearby_click has returned
Clicked == call.fn = "handle_nearby_click" /\ ret # None

\* the candidate element of the click exists
CandidateExists == call.index < Len(Graph_iter(call.graph))

\* the clicked point is in the closed box, and in its interior
InClosedBox ==
    /\ call.p[1] \in call.bounds.min[1]..call.bounds.max[1]
    /\ call.p[2] \in call.bounds.min[2]..call.bounds.max[2]
InInterior ==
    /\ call.p[1] \in (call.bounds.min[1] + 1)..(call.bounds.max[1] - 1)
    /\ call.p[2] \in (call.bounds.min[2] + 1)..(call.bounds.max[2] - 1)

\* C21 as stated: the request callback is called, with the Handle of the candidate
\* element, exactly when the clicked point is strictly inside the bounding box of an
\* existing candidate; on the boundary, outside, or with a vanished index nothing happens
C21_ClickStrictlyInside_AsStated ==
    Clicked =>
        IF CandidateExists /\ InInterior
        THEN ret.value = get_handle(Graph_iter(call.graph)[call.index + 1])
        ELSE ret.value = None

\* C21: the request callback is called, with the Handle of the candidate element,
\* exactly when the candidate exists and the clicked point is inside its bounding box
\* or on its boundary; outside the box, or with a vanished index, nothing happens
C21_ClickInsideOrOnBoundary ==
    Clicked =>
        IF CandidateExists /\ InClosedBox
        THEN ret.value = get_handle(Graph_iter(call.graph)[call.index + 1])
        ELSE ret.value = None

\* a click on the boundary of the box of an existing parent element called the callback
C21_Witness ==
    /\ Clicked
    /\ call.index = 1
    /\ CandidateExists
    /\ InClosedBox
    /\ ~InInterior
    /\ ret.value # None

\* the closure of get_parents has returned
Answered == call.fn = "get_parents" /\ ret # None

\* a text of decimal digits with an optional "+" in front whose value is 0, 1 or 2:
\* zeros and then one of "0", "1", "2"
SmallDecimal(text) ==
    LET digits == IF text # <<>> /\ Head(text) = "+" THEN Tail(text) ELSE text
    IN /\ digits # <<>>
       /\ \A i \in 1..(Len(digits) - 1) : digits[i] = "0"
       /\ digits[Len(digits)] \in {"0", "1", "2"}

\* the Operation of a small decimal
OperationOf(text) ==
    CASE text[Len(text)] = "0" -> "Apply"
      [] text[Len(text)] = "1" -> "Eval"
      [] text[Len(text)] = "2" -> "Fill"

\* C23 as stated: the operation string is accepted exactly when it is "0", "1" or "2",
\* which give Apply, Eval and Fill; every other string makes the response an error
C23_OperationStrings_AsStated ==
    Answered =>
        IF call.operation \in { <<"0">>, <<"1">>, <<"2">> }
        THEN /\ ret.value.ok
             /\ LET tasks == ret.value.value.tasks.value
                IN tasks[Len(tasks)].operation = OperationOf(call.operation)
        ELSE ~ret.value.ok

\* C23: the operation string is accepted exactly when it is a decimal number, with an
\* optional "+" in front and any number of leading zeros, whose value is 0, 1 or 2,
\* which give Apply, Eval and Fill; every other string makes the response an error
C23_OperationStrings ==
    Answered =>
        IF SmallDecimal(call.operation)
        THEN /\ ret.value.ok
             /\ LET tasks == ret.value.value.tasks.value
                IN /\ Len(tasks) = Len(call.before) + 1
                   /\ tasks[Len(tasks)].operation = OperationOf(call.operation)
        ELSE ~ret.value.ok

\* "+01" after a good task was accepted as Eval
C23_Witness ==
    /\ Answered
    /\ call.operation = <<"+", "0", "1">>
    /\ call.before # <<>>
    /\ ret.value.ok
    /\ ret.value.value.tasks.value[2].operation = "Eval"


\* the graph has been drawn
Drawn == call.fn = "get_draw_parameters" /\ ret # None

\* the draw parameters returned for a node of the drawn graph
ParamsOf(a) == ret.value[call.graph.lineages[a.content][1] + 1]

\* the x-offset get_draw_parameters added for slot j (from 0) among the owned parents of
\* the node a: the x of that parent less the x of a
XOffset(a, j) == FracSub(ParamsOf(a.parents[j + 1]).pos[1], ParamsOf(a).pos[1])

RECURSIVE FracSum(_)
FracSum(fs) == IF fs = <<>> THEN F32(0) ELSE FracAdd(Head(fs), FracSum(Tail(fs)))

\* the x-offsets of the owned parents of the node a are symmetric about 0, a step of
\* the generation's scale apart, and fill a slot as wide as the scale of a
SiblingsCentred(a) ==
    LET n == Len(a.parents)
        scale == ParamsOf(a).scale
        step == FracDiv(scale, F32(n))
        half == FracMul(scale, <<1, 2>>)
    IN n > 0 =>
        /\ FracSum([i \in 1..n |-> XOffset(a, i - 1)]) = F32(0)
        /\ \A j \in 0..(n - 1) :
              /\ XOffset(a, j) = FracNeg(XOffset(a, n - 1 - j))
              /\ ParamsOf(a.parents[j + 1]).scale = step
        /\ \A j \in 0..(n - 2) : FracSub(XOffset(a, j + 1), XOffset(a, j)) = step
        /\ FracSub(XOffset(a, 0), FracMul(step, <<1, 2>>)) = FracNeg(half)
        /\ FracAdd(XOffset(a, n - 1), FracMul(step, <<1, 2>>)) = half

\* C22: for a generation of N siblings the x-offsets that get_draw_parameters adds for
\* the slots 0..N-1 are symmetric about 0 (they sum to 0, and the offset of slot j is
\* the negative of that of slot N-1-j), consecutive slots are the generation's scale
\* (the parent scale over N) apart, and together the slots span the parent scale; the
\* root generation is the single slot at x = 0 with scale 1
C22_SiblingsCentred ==
    Drawn =>
        /\ ret.value[1].pos[1] = F32(0)
        /\ ret.value[1].scale = F32(1)
        /\ \A h \in DOMAIN call.graph.lineages :
              SiblingsCentred(get_from_lineage(call.graph.inner, call.graph.lineages[h][2]))

\* the root has three parents drawn at x = -1/3, 0 and 1/3, and the first of them has
\* two parents drawn at x = -1/3 - 1/12 and -1/3 + 1/12
C22_Witness ==
    /\ Drawn
    /\ Len(call.graph.inner[1].parents) = 3
    /\ [j \in 1..3 |-> XOffset(call.graph.inner[1], j - 1)]
          = << <<-1, 3>>, <<0, 1>>, <<1, 3>> >>
    /\ Len(call.graph.inner[1].parents[1].parents) = 2
    /\ [j \in 1..2 |-> ParamsOf(call.graph.inner[1].parents[1].parents[j]).pos[1]]
          = << <<-5, 12>>, <<-1, 4>> >>


-----------------------------------------------------------------------------
(* The layout of the buffer, checked under SpecCodec *)

\* from_hex was handed a text of four valid fields whose accessibility bits are valid
Decodable ==
    /\ cpc = "parsed"
    /\ NumFields(input) = 4
    /\ AllFieldsValid(input)
    /\ MetadataOf(input) \div 64 # 3

\* to_hex has written the Handle
Encoded == cpc = "encoded"

\* a u64 of at most 31
AtMost31(u) == (\A j \in 1..(2 * UINT64_LENGTH - 2) : u[j] = 0) /\ 16 * u[15] + u[16] <= 31

\* the accessibility bits of a metadata byte that stand for an Accessibility
AccessibilityBits(a) == CHOOSE c \in 0..2 : <<c, a>> \in { <<0, "Strict">>, <<1, "Shallow">>, <<2, "Lazy">> }

\* C24: when the literal flag (bit 5 of the metadata byte) is set, from_hex returns a
\* Literal whose size is the low 5 bits of the metadata byte and whose content is bytes
\* 0..30 of the buffer; and to_hex of a Literal with size <= 31 writes those bits and
\* bytes back, with the literal flag set and the accessibility bits of the Handle
C24_LiteralLayout ==
    /\ (Decodable /\ Bit(MetadataOf(input), 5) = 1) =>
          /\ parsed.ok
          /\ handle.content.tag = "Literal"
          /\ AtMost31(handle.size)
          /\ 16 * handle.size[15] + handle.size[16] = MetadataOf(input) % 32
          /\ handle.content.bytes = SubSeq(BytesOf(input), 1, HANDLE_LENGTH - 1)
    /\ (Encoded /\ handle.content.tag = "Literal" /\ AtMost31(handle.size)) =>
          LET out == BytesOf(hex)
          IN /\ SubSeq(out, 1, HANDLE_LENGTH - 1) = handle.content.bytes
             /\ out[HANDLE_LENGTH] % 32 = 16 * handle.size[15] + handle.size[16]
             /\ Bit(out[HANDLE_LENGTH], 5) = 1
             /\ out[HANDLE_LENGTH] \div 64 = AccessibilityBits(handle.accessibility)

\* a Lazy Literal of size 31 with content 1, 2, .., 31 was written with metadata 0xbf
C24_Witness ==
    /\ Encoded
    /\ handle.content.tag = "Literal"
    /\ handle.accessibility = "Lazy"
    /\ handle.size = U64(0, 31)
    /\ handle.content.bytes[2] = 2
    /\ BytesOf(hex)[HANDLE_LENGTH] = 191

\* C25: when the literal flag is clear, from_hex reads size from bytes 16..23 (little
\* endian); with metadata bit 2 set it returns Canonical with the hash bytes 0..15
\* followed by bytes 24..30, otherwise Local with the id bytes 0..7 (little endian); and
\* to_hex writes the same fields to the same positions
C25_NonLiteralLayout ==
    /\ (Decodable /\ Bit(MetadataOf(input), 5) = 0) =>
          LET bytes == BytesOf(input)
          IN /\ parsed.ok
             /\ handle.content.tag = "Other"
             /\ handle.size = from_str_radix(split(input)[3]).value
             /\ \A k \in 1..UINT64_LENGTH :
                   bytes[2 * UINT64_LENGTH + k]
                      = 16 * handle.size[2 * (UINT64_LENGTH - k) + 1]
                        + handle.size[2 * (UINT64_LENGTH - k) + 2]
             /\ IF Bit(MetadataOf(input), 2) = 1
                THEN /\ handle.content.data.tag = "Canonical"
                     /\ handle.content.data.hash
                           = SubSeq(bytes, 1, 2 * UINT64_LENGTH)
                             \o SubSeq(bytes, 3 * UINT64_LENGTH + 1, HANDLE_LENGTH - 1)
                ELSE /\ handle.content.data.tag = "Local"
                     /\ handle.content.data.id = from_str_radix(split(input)[1]).value
    /\ (Encoded /\ handle.content.tag = "Other") =>
          LET out == BytesOf(hex)
          IN /\ from_str_radix(split(hex)[3]).value = handle.size
             /\ Bit(out[HANDLE_LENGTH], 5) = 0
             /\ IF handle.content.data.tag = "Canonical"
                THEN /\ Bit(out[HANDLE_LENGTH], 2) = 1
                     /\ SubSeq(out, 1, 2 * UINT64_LENGTH)
                          \o SubSeq(out, 3 * UINT64_LENGTH + 1, HANDLE_LENGTH - 1)
                            = handle.content.data.hash
                ELSE /\ Bit(out[HANDLE_LENGTH], 2) = 0
                     /\ from_str_radix(split(hex)[1]).value = handle.content.data.id

\* a text with size 0x103 and a full hash decoded to a Canonical whose size window is
\* the bytes 03 01 00 .. and whose hash skips that window
C25_Witness ==
    /\ Decodable
    /\ parsed.ok
    /\ handle.content.tag = "Other"
    /\ handle.content.data.tag = "Canonical"
    /\ SubSeq(BytesOf(input), 2 * UINT64_LENGTH + 1, 2 * UINT64_LENGTH + 2) = <<3, 1>>
    /\ handle.size = U64(1, 3)
    /\ handle.content.data.hash[1] = 44
    /\ handle.content.data.hash[2 * UINT64_LENGTH + 1] = 66

\* the object-type code of a metadata byte
ObjectBits(metadata) == metadata % 4

\* C26: the object-type mapping is one bijection used in both directions: each of the
\* codes 0..3 decodes, none is rejected, to a variant of {Blob, Tree, Thunk, Tag} of
\* its own, encoding that variant gives the code back, and from_hex and to_hex use them
C26_ObjectBijection ==
    /\ \A c \in 0..3 :
          /\ Object_try_from(c).ok
          /\ Object_try_from(c).value \in {"Blob", "Tree", "Thunk", "Tag"}
          /\ u8_from_Object(Object_try_from(c).value) = c
    /\ \A c1, c2 \in 0..3 :
          c1 # c2 => Object_try_from(c1).value # Object_try_from(c2).value
    /\ (Decodable /\ Bit(MetadataOf(input), 5) = 0) =>
          /\ parsed.ok
          /\ handle.content.object_type = Object_try_from(ObjectBits(MetadataOf(input))).value
    /\ (Encoded /\ handle.content.tag = "Other") =>
          Object_try_from(ObjectBits(BytesOf(hex)[HANDLE_LENGTH])).value
             = handle.content.object_type
    /\ (Encoded /\ parsed # None /\ handle.content.tag = "Other") =>
          ObjectBits(BytesOf(hex)[HANDLE_LENGTH]) = ObjectBits(MetadataOf(input))

\* a text with object code 3 decoded to a Tag and was written with code 3 again
C26_Witness ==
    /\ Encoded
    /\ parsed # None
    /\ handle.content.tag = "Other"
    /\ ObjectBits(MetadataOf(input)) = 3
    /\ handle.content.object_type = "Tag"
    /\ ObjectBits(BytesOf(hex)[HANDLE_LENGTH]) = 3


-----------------------------------------------------------------------------
(* The merge of one Task, checked under Spec *)

\* the graph of the last merge after its first i incoming Tasks
After(i) ==
    merge_loop(last.pre, last.pre.lineages[last.handle][1], last.pre.lineages[last.handle][2],
               SubSeq(last.parents, 1, i))

\* the positions of the incoming Tasks whose Handle the graph did not hold, and held,
\* when the loop came to them
Creating == { i \in 1..Len(last.parents) : last.parents[i].handle \notin DOMAIN After(i - 1).lineages }
Revisiting == { i \in 1..Len(last.parents) : last.parents[i].handle \in DOMAIN After(i - 1).lineages }

\* the Ancestor recorded for a Handle
NodeOf(g, h) == get_from_lineage(g.inner, g.lineages[h][2])

\* the Handles of the owned parents of an Ancestor, in order
ParentHandles(a) == [j \in 1..Len(a.parents) |-> a.parents[j].content]

\* C27: when merge_new_parents creates a node for a Handle h it did not know, the node
\* is appended as the last owned parent of the target's node, its OrderingIndex is the
\* node count before the insertion, its Lineage is the target's Lineage with the new
\* position in the target's parent list appended, h is appended to ordering, and its
\* back-edge list is exactly [(OrderingIndex of the target, op)]
C27_CreatedNode ==
    Merged =>
        /\ After(Len(last.parents)) = ancestry
        /\ \A i \in Creating :
              LET before == After(i - 1)
                  after == After(i)
                  h == last.parents[i].handle
                  target == NodeOf(before, last.handle)
                  created == [content |-> h, parents |-> <<>>,
                              children |-> <<<<before.lineages[last.handle][1],
                                               last.parents[i].operation>>>>]
              IN /\ NodeOf(after, last.handle).parents = Append(target.parents, created)
                 /\ after.lineages[h][1] = Cardinality(Ancestors(before.inner))
                 /\ after.lineages[h][1] = Len(before.ordering)
                 /\ after.lineages[h][2]
                       = Append(before.lineages[last.handle][2], Len(target.parents))
                 /\ NodeOf(after, h) = created
                 /\ after.ordering = Append(before.ordering, h)

\* a merge into a parent of the root created two nodes, the second one next to the first
C27_Witness ==
    /\ Merged
    /\ Creating = {1, 2}
    /\ last.pre.lineages[last.handle] = <<1, <<0, 0>>>>
    /\ ancestry.lineages[last.parents[2].handle] = <<3, <<0, 0, 1>>>>
    /\ NodeOf(ancestry, last.parents[2].handle).children = <<<<1, last.parents[2].operation>>>>

\* C28: when the Handle of an incoming Task is already in the graph, processing the Task
\* changes nothing but, at most, the back-edge list of that Handle's node: ordering,
\* lineages, the owned-parents list of every node and the back-edge list of every other
\* node are as before
C28_ExistingHandleFrame ==
    Merged =>
        \A i \in Revisiting :
            LET before == After(i - 1)
                after == After(i)
            IN /\ after.ordering = before.ordering
               /\ after.lineages = before.lineages
               /\ Cardinality(Ancestors(after.inner)) = Cardinality(Ancestors(before.inner))
               /\ \A h \in DOMAIN before.lineages :
                     /\ ParentHandles(NodeOf(after, h)) = ParentHandles(NodeOf(before, h))
                     /\ h # last.parents[i].handle =>
                           NodeOf(after, h).children = NodeOf(before, h).children

\* a Task for a Handle owned above the root, not the target, gave its node a second
\* back-edge while three nodes kept theirs
C28_Witness ==
    /\ Merged
    /\ len(last.pre) = 3
    /\ len(ancestry) = 3
    /\ \E i \in Revisiting :
          /\ last.parents[i].handle \notin {last.handle, last.pre.ordering[1]}
          /\ Len(NodeOf(After(i - 1), last.parents[i].handle).children) = 1
          /\ Len(NodeOf(After(i), last.parents[i].handle).children) = 2

\* C29: a Task whose Handle is the merge target itself creates no node and records the
\* self back-edge (OrderingIndex of the target, op) on the target's node
C29_SelfBackEdge ==
    Merged =>
        \A i \in 1..Len(last.parents) :
            last.parents[i].handle = last.handle =>
                /\ After(i).ordering = After(i - 1).ordering
                /\ <<ancestry.lineages[last.handle][1], last.parents[i].operation>>
                      \in BackEdges(ancestry, last.handle)

\* the back-edges of a Handle's node as (child Handle, Operation) pairs
ChildEdges(g, h) == { <<g.ordering[e[1] + 1], e[2]>> : e \in BackEdges(g, h) }

\* C30: for two fetch results whose targets are both in the graph, merging them in
\* either order gives the same set of known Handles and, for every Handle, the same set
\* of back-edges as (child Handle, Operation) pairs
C30_DeliveryOrder ==
    (ancestry # None /\ ~panicked) =>
        \A t1, t2 \in DOMAIN ancestry.lineages :
            \A l1, l2 \in TaskLists :
                LET one == merge_new_parents(merge_new_parents(ancestry, t1, l1), t2, l2)
                    other == merge_new_parents(merge_new_parents(ancestry, t2, l2), t1, l1)
                IN /\ DOMAIN one.lineages = DOMAIN other.lineages
                   /\ \A h \in DOMAIN one.lineages : ChildEdges(one, h) = ChildEdges(other, h)


-----------------------------------------------------------------------------
(* Races of the application, checked under SpecApp *)

\* the Handles of the elements of a Graph
HandlesOf(g) == { get_handle(Graph_iter(g)[i]) : i \in 1..Len(Graph_iter(g)) }

\* the Graph that the "Target" box of the last frame left, which rx.try_recv() found
GraphAtReceive ==
    IF frame.parse # None /\ frame.parse.ok
    THEN Graph_set_main_handle(frame.parse.value)
    ELSE frame.pre.main

\* the last frame called graph.set_parents with a target that is not in the graph
AbsentTargetMerge ==
    /\ ReceivedParents
    /\ frame.received.handle \notin HandlesOf(GraphAtReceive)

\* C31: a merge for an absent target is reachable: a parents fetch is dispatched for a
\* Handle of the graph, the operator changes the root before the result is drained, and
\* set_parents is then called with a target Handle that is not in the graph; the call
\* finds a graph whose main Handle is another one and leaves it as it is
C31_AbsentTargetMerge ==
    AbsentTargetMerge =>
        /\ GraphAtReceive # None => get_handle(GraphAtReceive.inner[1].content) # frame.received.handle
        /\ main = GraphAtReceive

\* the fetch was dispatched for the main Handle, the operator then typed another Handle,
\* and the same frame drained a list of two parents for the old one
C31_Witness ==
    /\ AbsentTargetMerge
    /\ frame.edit # None
    /\ frame.parse.ok
    /\ frame.pre.main # None
    /\ frame.received.handle \in HandlesOf(frame.pre.main)
    /\ Len(frame.received.result.value.tasks.value) = 2
    /\ main # None
    /\ frame.received.handle \notin HandlesOf(main)
    /\ Len(Graph_iter(main)) = 1


\* C37: once a root has been assigned, the main Handle of the graph is the stored target
\* Handle (storage.target) that "Get Parent" fetches for, so "Get Parent" never
\* dispatches a fetch for a Handle that is not in the graph at that moment
C37_RootIsStoredTarget ==
    /\ main # None =>
          /\ get_handle(main.inner[1].content) = storage_target
          /\ storage_target \in HandlesOf(main)
    /\ (frame.op = "update" /\ frame.get_parent /\ GraphAtReceive # None) =>
          /\ spawned[Len(frame.pre.spawned) + 1] = storage_target
          /\ spawned[Len(frame.pre.spawned) + 1] \in HandlesOf(GraphAtReceive)

\* the operator typed another Handle over a graph with parents and pressed "Get Parent"
\* in the same frame: the fetch is for the new main Handle
C37_Witness ==
    /\ frame.op = "update"
    /\ frame.get_parent
    /\ frame.edit # None
    /\ frame.parse.ok
    /\ Len(Graph_iter(frame.pre.main)) >= 2
    /\ frame.pre.storage_target # storage_target
    /\ get_handle(main.inner[1].content) = storage_target
    /\ spawned[Len(spawned)] = storage_target


-----------------------------------------------------------------------------
(* A parents response as a whole, checked under SpecFun *)

\* a fetch result for a json response has been received
ResponseReceived == call.fn = "received" /\ ret # None /\ call.outcome.tag = "json"

\* an entry of a parents response that does not convert: its handle text is not four
\* valid fields with valid accessibility bits, or its operation is no 0, 1 or 2
BadEntry(t) ==
    \/ NumFields(t.handle) # 4
    \/ ~AllFieldsValid(t.handle)
    \/ MetadataOf(t.handle) \div 64 = 3
    \/ ~SmallDecimal(t.operation)

\* the Task an entry that converts stands for
TaskOf(t) == Task(Handle_from_hex(t.handle).value, OperationOf(t.operation))

\* C33: if any one entry of a parents response fails to convert (malformed handle text
\* or invalid operation), the whole response is received as an error and none of its
\* entries, the valid ones included, is merged into the graph; a response with absent
\* parents leaves the graph as it is too; a response whose entries all convert is merged
C33_BadEntryFailsResponse ==
    ResponseReceived =>
        LET parents == call.outcome.json.parents
        IN IF parents = None
           THEN ret.value = <<call.graph, <<>>>>
           ELSE IF \E i \in 1..Len(parents.value) : BadEntry(parents.value[i])
           THEN /\ ret.value[1] = call.graph
                /\ ret.value[2] # <<>>
                /\ ret.value[2][1] = "Failed http request: "
           ELSE /\ ret.value[1]
                     = Graph_set_parents(call.graph, call.handle,
                                         [i \in 1..Len(parents.value) |-> TaskOf(parents.value[i])])
                /\ ret.value[2] = <<>>

\* a response for the main Handle with a valid entry followed by one with operation "3"
\* was received as an error, and the graph still has the main Handle alone
C33_Witness ==
    /\ ResponseReceived
    /\ call.outcome.json.parents # None
    /\ Len(call.outcome.json.parents.value) = 2
    /\ ~BadEntry(call.outcome.json.parents.value[1])
    /\ call.outcome.json.parents.value[2].operation = <<"3">>
    /\ call.graph # None
    /\ call.handle = get_handle(call.graph.inner[1].content)
    /\ Len(Graph_iter(call.graph)) = 1
    /\ ret.value[1] = call.graph
    /\ ret.value[2] # <<>>


-----------------------------------------------------------------------------
(* The element order of Graph (graph.rs), checked under SpecFun *)

\* an index of a Graph has been categorised and located
Indexed == call.fn = "get_graph_index" /\ ret # None

\* the places of the Ancestors of a slice in prefix depth-first order: every Ancestor,
\* then the subtrees of its parents in list order; a place is the list of positions
\* (from 0) from the root slice down
RECURSIVE PlacesFrom(_, _, _)
PlacesFrom(slice, i, above) ==
    IF i > Len(slice) THEN <<>>
    ELSE <<Append(above, i - 1)>>
            \o PlacesFrom(slice[i].parents, 1, Append(above, i - 1))
            \o PlacesFrom(slice, i + 1, above)

Places(g) == IF g = None THEN <<>> ELSE PlacesFrom(g.inner, 1, <<>>)

\* the Ancestor at a place
RECURSIVE AtPlace(_, _)
AtPlace(slice, place) ==
    IF Len(place) = 1 THEN slice[place[1] + 1]
    ELSE AtPlace(slice[place[1] + 1].parents, Tail(place))

\* C34: Graph::iter yields the elements in prefix depth-first order (every node followed
\* by the subtrees of its parents in list order, main at 0); for every index i below
\* iter().count() the node get_draw_parameters(i) locates with get_location_rec is the
\* node iter().nth(i) yields; and get_graph_index(i) is Some exactly for those i
C34_IterMatchesLocation ==
    Indexed =>
        LET places == Places(call.graph)
        IN /\ Len(ret.value.elements) = Len(places)
           /\ \A k \in 1..Len(places) :
                 ret.value.elements[k] = AtPlace(call.graph.inner, places[k]).content
           /\ call.graph # None => ret.value.elements[1] = call.graph.inner[1].content
           /\ ret.value.graph_index = (call.index < Len(ret.value.elements))
           /\ ret.value.graph_index =>
                 /\ ret.value.params.tag = "Drawn"
                 /\ ret.value.params.lineage = places[call.index + 1]
                 /\ AtPlace(call.graph.inner, ret.value.params.lineage).content
                       = ret.value.elements[call.index + 1]

\* index 3 of a Graph of four elements is the second parent of the main element, after
\* the first parent and its own parent, and an element with the same content comes
\* earlier in the order
C34_Witness ==
    /\ Indexed
    /\ Len(ret.value.elements) = 4
    /\ call.index = 3
    /\ ret.value.graph_index
    /\ ret.value.params.lineage = <<0, 1>>
    /\ Places(call.graph)[3] = <<0, 0, 0>>
    /\ \E k \in 1..3 : ret.value.elements[k] = ret.value.elements[4]


-----------------------------------------------------------------------------
(* Drawing before and after a merge (graph/ancestors.rs), checked under SpecFun *)

\* a graph has been drawn, merged into and drawn again
Redrawn == call.fn = "merge_new_parents" /\ ret # None

\* the numbers of siblings of the generations a Lineage passes through, root first
RECURSIVE SiblingCounts(_, _)
SiblingCounts(slice, lineage) ==
    IF lineage = <<>> THEN <<>>
    ELSE <<Len(slice)>> \o SiblingCounts(slice[Head(lineage) + 1].parents, Tail(lineage))

\* the product of 1/n over a sequence of sibling counts
RECURSIVE InverseProduct(_)
InverseProduct(counts) ==
    IF counts = <<>> THEN F32(1)
    ELSE FracMul(<<1, Head(counts)>>, InverseProduct(Tail(counts)))

\* every scale of a table of draw parameters is the product of 1/(number of siblings)
\* over the generations of the node's Lineage, and the root is at (0, 0) with scale 1
ScalesFromShape(g, table) ==
    /\ Len(table) = Len(g.ordering)
    /\ \A i \in 1..Len(table) :
          table[i].scale = InverseProduct(SiblingCounts(g.inner, g.lineages[g.ordering[i]][2]))
    /\ table[1] = [pos |-> <<F32(0), F32(0)>>, scale |-> F32(1)]

\* one sequence is a proper prefix of another
ProperPrefix(a, b) == Len(a) < Len(b) /\ \A k \in 1..Len(a) : a[k] = b[k]

\* C35: get_draw_parameters is a function of the current tree shape only: the scale of a
\* node is the product, over the generations on its lineage, of 1/(number of siblings in
\* that generation), the root is at (0, 0) with scale 1, nodes whose generations did not
\* change are drawn as before, and appending a new parent to a node changes the scale and
\* the x-position of that node's existing parents and leaves their OrderingIndex as it was
C35_ShapeDeterminesDrawing ==
    Redrawn =>
        LET before == call.before
            merged == ret.value.graph
            target == before.lineages[call.target][2]
            parents_before == get_from_lineage(before.inner, target).parents
            parents_merged == get_from_lineage(merged.inner, target).parents
        IN /\ ScalesFromShape(before, ret.value.drawn_before)
           /\ ScalesFromShape(merged, ret.value.drawn)
           /\ \A h \in DOMAIN before.lineages :
                 /\ merged.lineages[h] = before.lineages[h]
                 /\ merged.ordering[before.lineages[h][1] + 1] = h
                 /\ ~ProperPrefix(target, before.lineages[h][2]) =>
                       ret.value.drawn[before.lineages[h][1] + 1]
                          = ret.value.drawn_before[before.lineages[h][1] + 1]
           /\ Len(parents_merged) > Len(parents_before) =>
                 \A j \in 1..Len(parents_before) :
                    LET index == before.lineages[parents_before[j].content][1]
                    IN /\ parents_merged[j].content = parents_before[j].content
                       /\ merged.lineages[parents_merged[j].content][1] = index
                       /\ ret.value.drawn[index + 1].scale
                             # ret.value.drawn_before[index + 1].scale
                       /\ ret.value.drawn[index + 1].pos[1]
                             # ret.value.drawn_before[index + 1].pos[1]

\* the first of the root's two parents has one parent, drawn at x = -1/4 with scale 1/2;
\* two more parents are appended to it, and the same node, still with OrderingIndex 3,
\* is drawn at x = -5/12 with scale 1/6
C35_Witness ==
    /\ Redrawn
    /\ Len(call.before.inner[1].parents) = 2
    /\ call.before.lineages[call.target][2] = <<0, 0>>
    /\ Len(call.before.inner[1].parents[1].parents) = 1
    /\ Len(ret.value.graph.inner[1].parents[1].parents) = 3
    /\ call.before.lineages[call.before.inner[1].parents[1].parents[1].content][1] = 3
    /\ ret.value.graph.lineages[call.before.inner[1].parents[1].parents[1].content][1] = 3
    /\ ret.value.drawn_before[4].pos[1] = <<-1, 4>>
    /\ ret.value.drawn_before[4].scale = <<1, 2>>
    /\ ret.value.drawn[4].pos[1] = <<-5, 12>>
    /\ ret.value.drawn[4].scale = <<1, 6>>


-----------------------------------------------------------------------------
(* The three indices of AncestorGraph, checked under Spec *)

\* following a Lineage from a slice indexes inside every parents list on the way
RECURSIVE InBounds(_, _)
InBounds(slice, lineage) ==
    /\ lineage # <<>>
    /\ lineage[1] >= 0
    /\ lineage[1] < Len(slice)
    /\ Len(lineage) > 1 => InBounds(slice[lineage[1] + 1].parents, Tail(lineage))

\* the number of Ancestors a slice owns
RECURSIVE NodeCount(_)
NodeCount(slice) ==
    IF slice = <<>> THEN 0
    ELSE 1 + NodeCount(Head(slice).parents) + NodeCount(Tail(slice))

\* C36: in every reachable AncestorGraph the three indices agree: ordering and lineages
\* have as many entries as the tree has nodes, for every i the entry lineages[ordering[i]]
\* carries the OrderingIndex i, and following that Lineage from the root stays inside the
\* tree and reaches a node whose Handle is ordering[i]
C36_IndicesAgree ==
    ancestry # None =>
        /\ Len(ancestry.ordering) = NodeCount(ancestry.inner)
        /\ Cardinality(DOMAIN ancestry.lineages) = NodeCount(ancestry.inner)
        /\ \A i \in 1..Len(ancestry.ordering) :
              /\ ancestry.ordering[i] \in DOMAIN ancestry.lineages
              /\ ancestry.lineages[ancestry.ordering[i]][1] = i - 1
              /\ InBounds(ancestry.inner, ancestry.lineages[ancestry.ordering[i]][2])
              /\ get_from_lineage(ancestry.inner,
                                  ancestry.lineages[ancestry.ordering[i]][2]).content
                    = ancestry.ordering[i]

\* a graph of four nodes in three generations: the last merge created the third and
\* the fourth node as the two parents of the root's only parent
C36_Witness ==
    /\ Merged
    /\ len(last.pre) = 2
    /\ len(ancestry) = 4
    /\ ancestry.lineages[ancestry.ordering[3]][2] = <<0, 0, 0>>
    /\ ancestry.lineages[ancestry.ordering[4]][2] = <<0, 0, 1>>


-----------------------------------------------------------------------------
(* The response channel between the tasks of get (http.rs) and App::update   *)
(* (app.rs).  A message carries the number of the fetch that sent it, which  *)
(* the program does not store, so that two messages of equal content are     *)
(* told apart.                                                               *)

MaxDispatched == 3

\* the Handles fetched
FetchHandles == { Handle_from_hex(t).value : t \in ValidTexts }

\* the fetches one frame dispatches: none, "Get Parent" or a click, or both
Dispatches == UNION { [1..n -> FetchHandles] : n \in 0..2 }

\* what the network does with a fetch: the request fails, the body is not the JSON
\* expected, or it is a response without parents
ChannelOutcomes == { o \in Outcomes : o.tag = "json" => o.json.parents = None }

\* tokio::spawn(task) / spawn_local(task) of get
spawn(h) == [handle |-> h, finished |-> FALSE]

\* tx.send
send(queue, message) == Append(queue, message)

\* rx.try_recv() taking the newest message
rx_try_recv_newest(queue) ==
    IF queue = <<>> THEN [message |-> None, channel |-> queue]
    ELSE [message |-> [tag |-> "Some", value |-> queue[Len(queue)]],
          channel |-> SubSeq(queue, 1, Len(queue) - 1)]

\* rx.try_recv(): the message received, if there is one, and the channel it leaves
rx_try_recv(queue) ==
    IF queue = <<>> THEN [message |-> None, channel |-> queue]
    ELSE [message |-> [tag |-> "Some", value |-> Head(queue)], channel |-> Tail(queue)]

ChannelInit ==
    /\ ChannelIdle
    /\ CodecIdle
    /\ GraphIdle
    /\ AppIdle
    /\ FunIdle

\* a frame of App::update as the channel sees it: the fetches of "Get Parent" and of a
\* click are spawned, and rx.try_recv() is called once
ChannelUpdate(dispatched) ==
    /\ Len(running) + Len(dispatched) <= MaxDispatched
    /\ running' = running \o [k \in 1..Len(dispatched) |-> spawn(dispatched[k])]
    /\ LET http_result == rx_try_recv(channel)
       IN /\ channel' = http_result.channel
          /\ processed' = IF http_result.message = None THEN processed
                          ELSE Append(processed, http_result.message.value)
    /\ UNCHANGED <<sent, codecVars, graphVars, appVars, funVars>>

\* the request of the task of fetch i succeeds or fails: the task sends its message
TaskFinishes(i, outcome) ==
    /\ i \in 1..Len(running)
    /\ ~running[i].finished
    /\ LET message == [fetch |-> i, message |-> get(running[i].handle, outcome)]
       IN /\ channel' = send(channel, message)
          /\ sent' = Append(sent, message)
    /\ running' = [k \in 1..Len(running) |->
                      IF k = i THEN [handle |-> running[k].handle, finished |-> TRUE]
                      ELSE running[k]]
    /\ UNCHANGED <<processed, codecVars, graphVars, appVars, funVars>>

ChannelFrames == \E dispatched \in Dispatches : ChannelUpdate(dispatched)

ChannelNext ==
    \/ ChannelFrames
    \/ \E i \in 1..MaxDispatched, outcome \in ChannelOutcomes : TaskFinishes(i, outcome)

\* update frames keep occurring: eframe calls App::update again for as long as the
\* application runs, and every task requests a repaint after it has sent
SpecChannel == ChannelInit /\ [][ChannelNext]_vars /\ WF_vars(ChannelFrames)

\* the number of messages of a sequence that fetch i sent
MessagesOf(seq, i) == Cardinality({ k \in 1..Len(seq) : seq[k].fetch = i })

\* a fetch whose request has succeeded or failed has sent one message, under its own
\* Handle, and one that is still waiting has sent none; the messages processed, followed
\* by those in the channel, are the messages sent, in the order they were sent
ChannelSafe ==
    /\ \A i \in 1..Len(running) :
          MessagesOf(sent, i) = IF running[i].finished THEN 1 ELSE 0
    /\ \A k \in 1..Len(sent) :
          /\ sent[k].fetch \in 1..Len(running)
          /\ sent[k].message.handle = running[sent[k].fetch].handle
    /\ processed \o channel = sent

\* C32: every dispatched fetch sends exactly one (handle, result) message on the channel,
\* whether its request succeeds or fails, and, provided update frames keep occurring,
\* every message sent is eventually received and processed exactly once, at most one
\* message per frame and in channel order
C32_EveryMessageProcessedOnce ==
    /\ []ChannelSafe
    /\ [][Len(processed') <= Len(processed) + 1]_vars
    /\ \A i \in 1..MaxDispatched :
          (MessagesOf(sent, i) = 1) ~> (MessagesOf(processed, i) = 1 /\ MessagesOf(channel, i) = 0)

\* the second fetch failed and was processed first, the first fetch succeeded and was
\* processed in a later frame, and the channel is empty again
C32_Witness ==
    /\ Len(processed) = 2
    /\ processed[1].fetch = 2
    /\ ~processed[1].message.result.ok
    /\ processed[2].fetch = 1
    /\ processed[2].message.result.ok
    /\ channel = <<>>
    /\ Len(running) = 3
    /\ ~running[3].finished

=============================================================================
